---------------------------- MODULE Spec2Model ----------------------------
(***************************************************************************)
(* A model of the qt-ingot scene system: the SceneView camera (pan, zoom,  *)
(* screen<->scene transform, input handlers), the SceneManager registry    *)
(* (z-ordered item list, hit tests) and the Drawable variants' geometry.   *)
(*                                                                         *)
(* Python floats are modelled as exact rationals <<n, d>> with d > 0 and   *)
(* gcd(|n|, d) = 1, so that equality of values is equality of tuples.      *)
(* A QPointF is a pair <<x, y>> of rationals.                              *)
(***************************************************************************)
EXTENDS Integers, Sequences, FiniteSets, TLC

(***************************************************************************)
(* Bounds of the model.                                                    *)
(***************************************************************************)
\* Number of input events / commands handled by one viewport in a run.
MaxEvents == 2
\* Number of add_item calls made on one registry in a run.
MaxAdds == 3

(***************************************************************************)
(* Exact arithmetic on Python floats.                                      *)
(***************************************************************************)
\* "v = x; return F(v)": x is evaluated once and F reads the value.  Every
\* operator below binds its operands before it reads them: an operand is an
\* expression over the state, evaluated wherever it is read.
Bind(x, F(_)) == CHOOSE r \in { F(v) : v \in {x} } : TRUE

Abs(n) == Bind(n, LAMBDA m : IF m < 0 THEN -m ELSE m)

RECURSIVE GCD(_, _)
GCD(a, b) ==
    Bind(a, LAMBDA m : Bind(b, LAMBDA n :
        IF n = 0 THEN m ELSE GCD(n, m % n)))

LCM(a, b) ==
    Bind(a, LAMBDA m : Bind(b, LAMBDA n : (m \div GCD(m, n)) * n))

\* The float n/d (d # 0) in lowest terms.
Rat(n, d) ==
    Bind(n, LAMBDA p : Bind(d, LAMBDA q : Bind(GCD(Abs(p), Abs(q)), LAMBDA g :
        IF q < 0 THEN <<(-p) \div g, (-q) \div g>>
        ELSE <<p \div g, q \div g>>)))

\* float(n) for an int n
R(n) == <<n, 1>>

RAdd(x, y) ==
    Bind(x, LAMBDA a : Bind(y, LAMBDA b : Bind(LCM(a[2], b[2]), LAMBDA l :
        Rat(a[1] * (l \div a[2]) + b[1] * (l \div b[2]), l))))

RNeg(x) == Bind(x, LAMBDA a : <<-a[1], a[2]>>)

RSub(x, y) == RAdd(x, RNeg(y))

RMul(x, y) ==
    Bind(x, LAMBDA a : Bind(y, LAMBDA b :
    Bind(GCD(Abs(a[1]), b[2]), LAMBDA g1 :
    Bind(GCD(Abs(b[1]), a[2]), LAMBDA g2 :
        Rat((a[1] \div g1) * (b[1] \div g2),
            (a[2] \div g2) * (b[2] \div g1))))))

\* x / y for y # 0 (Python raises ZeroDivisionError when y = 0)
RDiv(x, y) == RMul(x, Bind(y, LAMBDA b : Rat(b[2], b[1])))

RLt(x, y) ==
    Bind(x, LAMBDA a : Bind(y, LAMBDA b : Bind(LCM(a[2], b[2]), LAMBDA l :
        a[1] * (l \div a[2]) < b[1] * (l \div b[2]))))

RLe(x, y) == ~RLt(y, x)

\* Python's max(a, b) and min(a, b): the first argument unless the second
\* is strictly greater (resp. smaller).
RMax(x, y) ==
    Bind(x, LAMBDA a : Bind(y, LAMBDA b : IF RLt(a, b) THEN b ELSE a))

RMin(x, y) ==
    Bind(x, LAMBDA a : Bind(y, LAMBDA b : IF RLt(b, a) THEN b ELSE a))

\* QPointF(x, y) from ints
Pt(x, y) == <<R(x), R(y)>>

(***************************************************************************)
(* IEEE-754 binary64 arithmetic, as the interpreter performs it on floats. *)
(* A double is [m, e]: its 53-bit significand m, most significant bit      *)
(* first (m[1] = 1), and the exponent e of its last bit, so that its value *)
(* is m * 2^e.  An operand given as <<n, k>> is the double n * 2^k, n an   *)
(* integer with 1 <= n < 2^30.  Only positive normal values occur.         *)
(***************************************************************************)
BitLength(n) == CHOOSE b \in 1..30 : 2^(b - 1) <= n /\ n < 2^b

\* The bits of n, most significant first.
BitsOf(n) ==
    Bind(BitLength(n), LAMBDA b : [i \in 1..b |-> (n \div 2^(b - i)) % 2])

\* float(n * 2^k): exact
Float64(x) ==
    Bind(BitsOf(x[1]),
         LAMBDA bits :
            [m |-> [i \in 1..53 |-> IF i <= Len(bits) THEN bits[i] ELSE 0],
             e |-> x[2] - (53 - Len(bits))])

StripZeros(bits) ==
    IF \A i \in 1..Len(bits) : bits[i] = 0 THEN <<0>>
    ELSE LET first == CHOOSE i \in 1..Len(bits) :
                         bits[i] = 1 /\ \A j \in 1..(i - 1) : bits[j] = 0
         IN  SubSeq(bits, first, Len(bits))

\* Round to nearest, ties to even: the double nearest to p * 2^e, p a
\* sequence of bits with p[1] = 1.
f64_round(p, e) ==
    LET L == Len(p)
        head == SubSeq(p, 1, 53)
        sticky == \E i \in 55..L : p[i] = 1
        up == p[54] = 1 /\ (sticky \/ p[53] = 1)
        e2 == e + (L - 53)
        j == CHOOSE i \in 1..53 :
                 head[i] = 0 /\ \A h \in (i + 1)..53 : head[h] = 1
    IN  IF L <= 53
        THEN [m |-> [i \in 1..53 |-> IF i <= L THEN p[i] ELSE 0],
              e |-> e - (53 - L)]
        ELSE IF ~up THEN [m |-> head, e |-> e2]
        ELSE IF \A i \in 1..53 : head[i] = 1
        THEN [m |-> [i \in 1..53 |-> IF i = 1 THEN 1 ELSE 0], e |-> e2 + 1]
        ELSE [m |-> [i \in 1..53 |->
                        IF i < j THEN head[i] ELSE IF i = j THEN 1 ELSE 0],
              e |-> e2]

\* One step of the long division of 2^zeros by n.  st = [q, r]: the
\* quotient bits so far and the remainder; the dividend bit taken is 0.
f64_divide_step(n, st) ==
    IF 2 * st.r >= n
    THEN [q |-> Append(st.q, 1), r |-> 2 * st.r - n]
    ELSE [q |-> Append(st.q, 0), r |-> 2 * st.r]

\* steps steps of the long division, from st
RECURSIVE f64_divide(_, _, _)
f64_divide(n, st, steps) ==
    IF steps = 0 THEN st
    ELSE IF steps = 1 THEN f64_divide_step(n, st)
    ELSE Bind(f64_divide(n, st, steps \div 2),
              LAMBDA mid : f64_divide(n, mid, steps - (steps \div 2)))

\* 1.0 / x for x = <<n, k>>: the quotient of 2^zeros by n, at least 55
\* bits of it, and a sticky bit for the remainder, rounded.
f64_recip(x) ==
    LET n == x[1]
        zeros == 54 + BitLength(n)
        Rounded(st) ==
            f64_round(StripZeros(Append(st.q, IF st.r # 0 THEN 1 ELSE 0)),
                      0 - zeros - x[2] - 1)
    IN  Bind(f64_divide(n, [q |-> <<>>, r |-> 1], zeros), Rounded)

\* One step of the product of the integer n and the bits m.  st = [p,
\* carry]: the low bits of the product so far and the carry; the bit of m
\* taken is the lowest one not yet taken.
f64_times_step(n, m, st) ==
    LET t == m[Len(m) - Len(st.p)] * n + st.carry
    IN  [p |-> <<t % 2>> \o st.p, carry |-> t \div 2]

RECURSIVE f64_times(_, _, _, _)
f64_times(n, m, st, steps) ==
    IF steps = 0 THEN st
    ELSE IF steps = 1 THEN f64_times_step(n, m, st)
    ELSE Bind(f64_times(n, m, st, steps \div 2),
              LAMBDA mid : f64_times(n, m, mid, steps - (steps \div 2)))

\* x * f for x = <<n, k>> and the double f: the exact product, rounded.
f64_mul(x, f) ==
    LET Product(st) ==
            IF st.carry = 0 THEN st.p ELSE BitsOf(st.carry) \o st.p
        Rounded(st) == f64_round(StripZeros(Product(st)), x[2] + f.e)
    IN  Bind(f64_times(x[1], f.m, [p |-> <<>>, carry |-> 0], 53), Rounded)

f64_lt(a, b) ==
    \/ a.e < b.e
    \/ /\ a.e = b.e
       /\ \E i \in 1..53 :
             a.m[i] < b.m[i] /\ \A j \in 1..(i - 1) : a.m[j] = b.m[j]

\* max(a, b) and min(a, b) of Python
f64_max(a, b) == IF f64_lt(a, b) THEN b ELSE a

f64_min(a, b) == IF f64_lt(b, a) THEN b ELSE a

(***************************************************************************)
(* SceneView: camera state.                                                *)
(***************************************************************************)
VARIABLES
    position,          \* self._position: camera position, scene coordinates
    zoom,              \* self._zoom
    is_panning,        \* self._is_panning
    pan_start_pos,     \* self._pan_start_pos
    camera_start_pos,  \* self._camera_start_pos
    last_mouse_pos,    \* self._last_mouse_pos
    scope_visible,     \* self._scope_visible
    size,              \* <<self.width(), self.height()>> of the widget
    last,              \* the handler that ran last, its inputs and pre-state
    out,               \* what the handler that ran last emitted
    nevents            \* number of events handled so far

viewVars == <<position, zoom, is_panning, pan_start_pos, camera_start_pos,
              last_mouse_pos, scope_visible, size, last, out, nevents>>

min_zoom == Rat(1, 100)

max_zoom == R(100)

\* The factor of one zoom-in step; a zoom-out step uses 1.0 / 1.25.
zoom_in_factor == Rat(5, 4)

\* The zoom-out factor written as 0.75.
zoom_out_factor_three_quarters == Rat(3, 4)

\* 1.0/1.25
zoom_out_factor == RDiv(R(1), zoom_in_factor)

(***************************************************************************)
(* Drawable variants.  The pool holds the Drawable objects the application *)
(* has constructed; an object is known by its index in the pool.  Geometry *)
(* and colour are set by the constructor; z_index, visible and locked are  *)
(* plain attributes of the object.                                         *)
(***************************************************************************)
VARIABLES
    item_z,            \* item.z_index, per pool object
    item_visible,      \* item.visible
    item_locked,       \* item.locked
    drawable,          \* a Drawable constructed on its own, outside the pool
    items,             \* SceneManager._items: entries [id, seq], seq = the
                       \* ordinal of the add_item call that appended the entry
    held,              \* per pool object: add_item calls minus removals
    items_changed_flag,\* SceneManager._items_changed
    nadds,             \* number of add_item calls so far
    signals,           \* the signals the registry operation run last emitted
    query,             \* the registry operation run last, its argument, result
    tabs,              \* SceneWorkspace: the SceneView of each tab, in order
    current,           \* SceneWorkspace.currentIndex(), counted from 1
    scene_manager,     \* per SceneView: its _scene_manager
    views,             \* per SceneView: its attributes as they were when
                       \* its tab was last left; the view of the selected
                       \* tab is the one the camera variables describe
    managers           \* per SceneManager: its attributes as they were when
                       \* the tab of its view was last left

workspaceVars == <<tabs, current, scene_manager, views, managers>>

objectVars == <<item_z, item_visible, item_locked, drawable, workspaceVars>>

sceneVars == <<objectVars, items, held, items_changed_flag, nadds, signals,
               query>>

DefaultGray == <<100, 100, 100>>

\* Rectangle(x, y, width, height, color): drawable.py
Rectangle(x, y, w, h) ==
    [kind |-> "Rectangle", x |-> R(x), y |-> R(y), width |-> R(w),
     height |-> R(h), color |-> <<100, 150, 200, 150>>]

Ellipse(x, y, w, h) ==
    [kind |-> "Ellipse", x |-> R(x), y |-> R(y), width |-> R(w),
     height |-> R(h), color |-> <<200, 100, 150, 150>>]

\* EllipseItem(x, y, width, height): item.py; x, y are held in self._pos
EllipseItem(x, y, w, h) ==
    [kind |-> "EllipseItem", x |-> R(x), y |-> R(y), width |-> R(w),
     height |-> R(h), color |-> <<200, 100, 150, 150>>]

\* Text has no width/height attribute: its box is the fixed 100 x 20.
Text(x, y) ==
    [kind |-> "Text", x |-> R(x), y |-> R(y), width |-> R(0),
     height |-> R(0), color |-> <<255, 255, 255>>]

\* WidgetWrapper takes width/height from the widget; it has no color.
WidgetWrapper(x, y, w, h) ==
    [kind |-> "WidgetWrapper", x |-> R(x), y |-> R(y), width |-> R(w),
     height |-> R(h), color |-> <<>>]

\* get_bounding_box(): <<x, y, w, h>> of the QRectF returned
get_bounding_box(d) ==
    IF d.kind = "Text"
    THEN <<d.x, d.y, R(100), R(20)>>
    ELSE <<d.x, d.y, d.width, d.height>>

Rectangle_contains_point(d, point) ==
    /\ RLe(d.x, point[1]) /\ RLe(point[1], RAdd(d.x, d.width))
    /\ RLe(d.y, point[2]) /\ RLe(point[2], RAdd(d.y, d.height))

\* Raises ZeroDivisionError when width or height is 0.
Ellipse_raises(d) == d.width = R(0) \/ d.height = R(0)

\* item.contains_point(point) ends by raising, whatever the point: the
\* classes that divide by the squared half-axes, for a zero width or height
contains_point_raises(d) ==
    d.kind \in {"Ellipse", "EllipseItem"} /\ Ellipse_raises(d)

\* Ellipse.contains_point with the position taken as the centre.
Ellipse_contains_point_centered(d, point) ==
    LET centered_x == RSub(point[1], d.x)
        centered_y == RSub(point[2], d.y)
        a == RDiv(d.width, R(2))
        b == RDiv(d.height, R(2))
    IN  RLe(RAdd(RDiv(RMul(centered_x, centered_x), RMul(a, a)),
                 RDiv(RMul(centered_y, centered_y), RMul(b, b))),
            R(1))

Ellipse_contains_point(d, point) ==
    LET centered_x == RSub(point[1], RAdd(d.x, RDiv(d.width, R(2))))
        centered_y == RSub(point[2], RAdd(d.y, RDiv(d.height, R(2))))
        a == RDiv(d.width, R(2))
        b == RDiv(d.height, R(2))
    IN  RLe(RAdd(RDiv(RMul(centered_x, centered_x), RMul(a, a)),
                 RDiv(RMul(centered_y, centered_y), RMul(b, b))),
            R(1))

EllipseItem_contains_point(d, point) ==
    LET centered_x == RSub(point[1], RAdd(d.x, RDiv(d.width, R(2))))
        centered_y == RSub(point[2], RAdd(d.y, RDiv(d.height, R(2))))
        a == RDiv(d.width, R(2))
        b == RDiv(d.height, R(2))
    IN  RLe(RAdd(RDiv(RMul(centered_x, centered_x), RMul(a, a)),
                 RDiv(RMul(centered_y, centered_y), RMul(b, b))),
            R(1))

\* Text.contains_point with the right and bottom edges left out.
Text_contains_point_half_open(d, point) ==
    /\ RLe(d.x, point[1]) /\ RLt(point[1], RAdd(d.x, R(100)))
    /\ RLe(d.y, point[2]) /\ RLt(point[2], RAdd(d.y, R(20)))

Text_contains_point(d, point) ==
    /\ RLe(d.x, point[1]) /\ RLe(point[1], RAdd(d.x, R(100)))
    /\ RLe(d.y, point[2]) /\ RLe(point[2], RAdd(d.y, R(20)))

WidgetWrapper_contains_point(d, point) ==
    /\ RLe(d.x, point[1]) /\ RLe(point[1], RAdd(d.x, d.width))
    /\ RLe(d.y, point[2]) /\ RLe(point[2], RAdd(d.y, d.height))

\* item.contains_point(point): dispatch on the object's class
contains_point(d, point) ==
    CASE d.kind = "Rectangle" -> Rectangle_contains_point(d, point)
      [] d.kind = "Ellipse" -> Ellipse_contains_point(d, point)
      [] d.kind = "EllipseItem" -> EllipseItem_contains_point(d, point)
      [] d.kind = "Text" -> Text_contains_point(d, point)
      [] d.kind = "WidgetWrapper" -> WidgetWrapper_contains_point(d, point)

\* The Drawable objects of the application.  1 and 2 are the demo scene of
\* examples/main_tester.py; 3 overlaps both and shares z_index 1 with 2;
\* 4 lies inside 1 and 3 and shares z_index 0 with 1; 5 is an ellipse of
\* width 0.
Pool ==
    << Rectangle(100, 100, 200, 100),
       Ellipse(350, 150, 150, 150),
       Rectangle(120, 120, 300, 100),
       WidgetWrapper(140, 140, 100, 20),
       Ellipse(120, 110, 0, 60) >>

ItemIds == 1..Len(Pool)

\* The pool objects of positive width and height.
SolidIds == {i \in ItemIds : ~contains_point_raises(Pool[i])}

\* Python's None
None == 0

\* In place of a result: the call ended by raising ZeroDivisionError.
Raised == -1

\* The z_index each pool object is constructed with.
PoolZ == <<0, 1, 1, 0, 0>>

(***************************************************************************)
(* SceneManager                                                            *)
(***************************************************************************)
\* A sort by z_index that is not stable: an entry is placed before the
\* entries of equal z_index that precede it.
RECURSIVE sorted_by_z_unstable(_)
sorted_by_z_unstable(s) ==
    IF s = <<>> THEN <<>>
    ELSE LET e == s[Len(s)]
             Before(x) == item_z[x.id] < item_z[e.id]
             NotBefore(x) == item_z[x.id] >= item_z[e.id]
         IN  Bind(sorted_by_z_unstable(SubSeq(s, 1, Len(s) - 1)),
                  LAMBDA t : SelectSeq(t, Before) \o <<e>>
                                 \o SelectSeq(t, NotBefore))

\* sorted(s, key=lambda x: x.z_index) and list.sort(key=...): stable.
RECURSIVE sorted_by_z(_)
sorted_by_z(s) ==
    IF s = <<>> THEN <<>>
    ELSE LET e == s[Len(s)]
             NotAfter(x) == item_z[x.id] <= item_z[e.id]
             After(x) == item_z[x.id] > item_z[e.id]
         IN  Bind(sorted_by_z(SubSeq(s, 1, Len(s) - 1)),
                  LAMBDA t : SelectSeq(t, NotAfter) \o <<e>>
                                 \o SelectSeq(t, After))

get_items == sorted_by_z(items)

\* index of the first entry of s holding object item, 0 when there is none
IndexOf(s, item) ==
    IF \E i \in 1..Len(s) : s[i].id = item
    THEN CHOOSE i \in 1..Len(s) :
            /\ s[i].id = item
            /\ \A j \in 1..(i - 1) : s[j].id # item
    ELSE 0

\* A removal that fills the hole with the last entry of the list.
list_remove_swap(s, item) ==
    LET i == IndexOf(s, item)
    IN  IF i = Len(s) THEN SubSeq(s, 1, Len(s) - 1)
        ELSE SubSeq(s, 1, i - 1) \o <<s[Len(s)]>>
                 \o SubSeq(s, i + 1, Len(s) - 1)

\* list.remove(item): drops the first occurrence
list_remove(s, item) ==
    LET i == IndexOf(s, item)
    IN  SubSeq(s, 1, i - 1) \o SubSeq(s, i + 1, Len(s))

\* The test without "and not item.locked".
interactive_unlocked_forgotten(item) == item_visible[item]

\* the test get_item_at_position and get_items_in_rect apply to an item
interactive(item) == item_visible[item] /\ ~item_locked[item]

\* The loop over self._items instead of reversed(self._items).
get_item_at_position_forward(pos) ==
    LET hits == {i \in 1..Len(items) :
                    /\ interactive(items[i].id)
                    /\ contains_point(Pool[items[i].id], pos)}
    IN  IF hits = {} THEN None
        ELSE items[CHOOSE i \in hits : \A j \in hits : i <= j].id

\* The loop with "return item" outside the contains_point test.
get_item_at_position_unchecked(pos) ==
    LET hits == {i \in 1..Len(items) : interactive(items[i].id)}
    IN  IF hits = {} THEN None
        ELSE items[CHOOSE i \in hits : \A j \in hits : j <= i].id

\* reversed(self._items): the loop ends at the first entry, from the end,
\* that passes the visible/locked test and whose contains_point either
\* returns true or raises; it returns the item in the first case and lets
\* the exception through in the second.
get_item_at_position(pos) ==
    LET stops == {i \in 1..Len(items) :
                    /\ interactive(items[i].id)
                    /\ \/ contains_point_raises(Pool[items[i].id])
                       \/ contains_point(Pool[items[i].id], pos)}
        Outcome(i) == IF contains_point_raises(Pool[items[i].id])
                      THEN Raised ELSE items[i].id
    IN  IF stops = {} THEN None
        ELSE Outcome(CHOOSE i \in stops : \A j \in stops : j <= i)

\* The region test with the right and bottom bounds left out.
get_items_in_rect_half_open(x, y, width, height) ==
    LET rect_x1 == x
        rect_y1 == y
        rect_x2 == RAdd(x, width)
        rect_y2 == RAdd(y, height)
        InRect(e) ==
            /\ interactive(e.id)
            /\ RLe(rect_x1, Pool[e.id].x) /\ RLt(Pool[e.id].x, rect_x2)
            /\ RLe(rect_y1, Pool[e.id].y) /\ RLt(Pool[e.id].y, rect_y2)
    IN  SelectSeq(items, InRect)

get_items_in_rect(x, y, width, height) ==
    LET rect_x1 == x
        rect_y1 == y
        rect_x2 == RAdd(x, width)
        rect_y2 == RAdd(y, height)
        InRect(e) ==
            /\ interactive(e.id)
            /\ RLe(rect_x1, Pool[e.id].x) /\ RLe(Pool[e.id].x, rect_x2)
            /\ RLe(rect_y1, Pool[e.id].y) /\ RLe(Pool[e.id].y, rect_y2)
    IN  SelectSeq(items, InRect)

Ids(s) == [i \in 1..Len(s) |-> s[i].id]

NoArg == <<>>

add_item(item) ==
    /\ nadds < MaxAdds
    /\ items' = sorted_by_z(Append(items, [id |-> item, seq |-> nadds + 1]))
    /\ items_changed_flag' = TRUE
    /\ signals' = <<"items_changed", "scene_changed">>
    /\ nadds' = nadds + 1
    /\ held' = [held EXCEPT ![item] = @ + 1]
    /\ query' = [op |-> "add_item", arg |-> item, result |-> None]
    /\ UNCHANGED objectVars

remove_item(item) ==
    /\ IF IndexOf(items, item) # 0
       THEN /\ items' = list_remove(items, item)
            /\ items_changed_flag' = TRUE
            /\ signals' = <<"items_changed", "scene_changed">>
            /\ held' = [held EXCEPT ![item] = @ - 1]
       ELSE /\ signals' = <<>>
            /\ UNCHANGED <<items, items_changed_flag, held>>
    /\ query' = [op |-> "remove_item", arg |-> item, result |-> None]
    /\ UNCHANGED <<objectVars, nadds>>

\* clear_items signalling only when it had something to remove.
clear_items_quiet_when_empty ==
    /\ items' = <<>>
    /\ items_changed_flag' = (items_changed_flag \/ items # <<>>)
    /\ signals' = IF items = <<>> THEN <<>>
                  ELSE <<"items_changed", "scene_changed">>
    /\ held' = [i \in ItemIds |-> 0]
    /\ query' = [op |-> "clear_items", arg |-> NoArg, result |-> None]
    /\ UNCHANGED <<objectVars, nadds>>

clear_items ==
    /\ items' = <<>>
    /\ items_changed_flag' = TRUE
    /\ signals' = <<"items_changed", "scene_changed">>
    /\ held' = [i \in ItemIds |-> 0]
    /\ query' = [op |-> "clear_items", arg |-> NoArg, result |-> None]
    /\ UNCHANGED <<objectVars, nadds>>

\* A query leaves the registry as it is; its result is recorded.
Query(op, arg, result) ==
    /\ query' = [op |-> op, arg |-> arg, result |-> result]
    /\ signals' = <<>>
    /\ UNCHANGED <<objectVars, items, held, items_changed_flag, nadds>>

GetItems == Query("get_items", NoArg, get_items)

GetItemAtPosition(pos) ==
    Query("get_item_at_position", pos, get_item_at_position(pos))

GetItemsInRect(r) ==
    Query("get_items_in_rect", r,
          Ids(get_items_in_rect(r[1], r[2], r[3], r[4])))

(***************************************************************************)
(* SceneView: coordinate transform                                         *)
(***************************************************************************)
\* The conversion with the widget centre taken as width // 2, height // 2.
screen_to_scene_with_zoom_floor_center(screen_pos, zoom_level) ==
    LET widget_center_x == R(size[1] \div 2)
        widget_center_y == R(size[2] \div 2)
        rel_x == RSub(screen_pos[1], widget_center_x)
        rel_y == RSub(screen_pos[2], widget_center_y)
        scene_x == RAdd(position[1], RDiv(rel_x, zoom_level))
        scene_y == RAdd(position[2], RDiv(rel_y, zoom_level))
    IN  <<scene_x, scene_y>>

screen_to_scene_with_zoom(screen_pos, zoom_level) ==
    LET widget_center_x == RDiv(R(size[1]), R(2))
        widget_center_y == RDiv(R(size[2]), R(2))
        rel_x == RSub(screen_pos[1], widget_center_x)
        rel_y == RSub(screen_pos[2], widget_center_y)
        scene_x == RAdd(position[1], RDiv(rel_x, zoom_level))
        scene_y == RAdd(position[2], RDiv(rel_y, zoom_level))
    IN  <<scene_x, scene_y>>

screen_to_scene(screen_pos) == screen_to_scene_with_zoom(screen_pos, zoom)

\* The conversion with the camera offset scaled by 1/zoom instead of zoom.
scene_to_screen_divided(scene_pos) ==
    LET widget_center_x == RDiv(R(size[1]), R(2))
        widget_center_y == RDiv(R(size[2]), R(2))
        screen_x == RAdd(RDiv(RSub(scene_pos[1], position[1]), zoom),
                         widget_center_x)
        screen_y == RAdd(RDiv(RSub(scene_pos[2], position[2]), zoom),
                         widget_center_y)
    IN  <<screen_x, screen_y>>

scene_to_screen(scene_pos) ==
    LET widget_center_x == RDiv(R(size[1]), R(2))
        widget_center_y == RDiv(R(size[2]), R(2))
        screen_x == RAdd(RMul(RSub(scene_pos[1], position[1]), zoom),
                         widget_center_x)
        screen_y == RAdd(RMul(RSub(scene_pos[2], position[2]), zoom),
                         widget_center_y)
    IN  <<screen_x, screen_y>>

(***************************************************************************)
(* SceneView: what a handler emits.  out.status holds the snapshots passed *)
(* to status_updated.emit, out.updates counts the calls of self.update(),  *)
(* out.clicked holds the items whose on_clicked ran, out.raised tells      *)
(* whether the handler ended by raising, out.painted holds the layers a    *)
(* repaint drew, in the order it drew them.                                *)
(***************************************************************************)
\* The item loop skipping the items without a color attribute.
view_item_at_colored(scene_pos) ==
    LET Hits(its) ==
            {i \in 1..Len(its) :
                /\ item_visible[its[i].id] /\ ~item_locked[its[i].id]
                /\ Pool[its[i].id].color # <<>>
                /\ contains_point(Pool[its[i].id], scene_pos)}
        First(its, hits) ==
            IF hits = {} THEN None
            ELSE its[CHOOSE i \in hits : \A j \in hits : j <= i].id
    IN  Bind(get_items,
             LAMBDA its : Bind(Hits(its), LAMBDA hits : First(its, hits)))

\* The item the loops of mousePressEvent and _emit_status stop at:
\* the first of reversed(get_items()) that is visible, unlocked and
\* contains scene_pos; None when the loop runs to its end; Raised when
\* the loop comes to a visible unlocked item whose contains_point raises.
view_item_at(scene_pos) ==
    LET Hits(its) ==
            {i \in 1..Len(its) :
                /\ item_visible[its[i].id] /\ ~item_locked[its[i].id]
                /\ \/ contains_point_raises(Pool[its[i].id])
                   \/ contains_point(Pool[its[i].id], scene_pos)}
        Outcome(e) == IF contains_point_raises(Pool[e.id])
                      THEN Raised ELSE e.id
        First(its, hits) ==
            IF hits = {} THEN None
            ELSE Outcome(its[CHOOSE i \in hits : \A j \in hits : j <= i])
    IN  Bind(get_items,
             LAMBDA its : Bind(Hits(its), LAMBDA hits : First(its, hits)))

\* status_data of _emit_status, read from the state the handler leaves
status_data ==
    LET Color(item) == IF item # None /\ Pool[item].color # <<>>
                       THEN Pool[item].color ELSE DefaultGray
        Data(scene_pos) ==
            [screen_pos |-> last_mouse_pos, scene_pos |-> scene_pos,
             color |-> Bind(view_item_at(scene_pos), Color), zoom |-> zoom]
    IN  Bind(screen_to_scene(last_mouse_pos), Data)

Quiet ==
    [status |-> <<>>, updates |-> 0, clicked |-> <<>>, raised |-> FALSE,
     painted |-> <<>>]

\* self._emit_status() as the next step of a handler that has emitted o so
\* far: the snapshot is emitted, or the exception of the item loop ends
\* the handler.
emit_status(o) ==
    IF Bind(screen_to_scene(last_mouse_pos), view_item_at) = Raised
    THEN [o EXCEPT !.raised = TRUE]
    ELSE [o EXCEPT !.status = <<status_data>>]

NoPoint == <<>>

\* The record of the handler run last: its name, the button or key, the
\* screen point and zoom factor it worked with, the scene point that was
\* under that screen point when the handler started, and the state the
\* handler started from.  alt tells whether the alternate modifier was held
\* during a pointer event; pan_button is the button of the latest press
\* that started a pan, pan_scene the scene point that was under the cursor
\* of that press and pan_zoom the zoom the press found.
Ran(op, key, cursor, factor) ==
    [op |-> op, key |-> key, cursor |-> cursor, factor |-> factor,
     scene_before |-> IF cursor = NoPoint THEN NoPoint
                      ELSE screen_to_scene(cursor),
     zoom_before |-> zoom, position_before |-> position,
     panning_before |-> is_panning, last_mouse_before |-> last_mouse_pos,
     alt |-> FALSE, pan_button |-> last.pan_button,
     pan_scene |-> last.pan_scene, pan_zoom |-> last.pan_zoom]

\* Before any handler has run.
NeverRan ==
    [op |-> "__init__", key |-> "", cursor |-> NoPoint, factor |-> R(1),
     scene_before |-> NoPoint, zoom_before |-> R(1),
     position_before |-> Pt(0, 0), panning_before |-> FALSE,
     last_mouse_before |-> Pt(0, 0), alt |-> FALSE, pan_button |-> "",
     pan_scene |-> NoPoint, pan_zoom |-> R(1)]

(***************************************************************************)
(* SceneView: handlers                                                     *)
(***************************************************************************)
Handled == nevents < MaxEvents /\ nevents' = nevents + 1

\* The clamp without the lower bound: min(self._max_zoom, level).
set_zoom_level_value_no_floor(level) == RMin(max_zoom, level)

\* max(self._min_zoom, min(self._max_zoom, level))
set_zoom_level_value(level) == RMax(min_zoom, RMin(max_zoom, level))

set_zoom_level(level) ==
    /\ Handled
    /\ zoom' = set_zoom_level_value(level)
    /\ last' = Ran("set_zoom_level", "", NoPoint, level)
    /\ UNCHANGED <<position, is_panning, pan_start_pos, camera_start_pos,
                   last_mouse_pos, scope_visible, size>>
    /\ UNCHANGED sceneVars
    /\ out' = emit_status([Quiet EXCEPT !.updates = 1])'

\* new_zoom without the max(...min(...)) around the product.
new_zoom_unclamped(zoom_factor) == RMul(zoom, zoom_factor)

\* new_zoom of _zoom_to_cursor
new_zoom(zoom_factor) == RMax(min_zoom, RMin(max_zoom, RMul(zoom, zoom_factor)))

\* _zoom_to_cursor with the drift added to the camera position.
zoom_to_cursor_drift_added(cursor_pos, zoom_factor) ==
    \E old_position \in {position},
       scene_pos_before \in {screen_to_scene(cursor_pos)},
       scene_pos_after \in
           {screen_to_scene_with_zoom(cursor_pos, new_zoom(zoom_factor))} :
       LET delta_scene == <<RSub(scene_pos_after[1], scene_pos_before[1]),
                            RSub(scene_pos_after[2], scene_pos_before[2])>>
       IN  /\ zoom' = new_zoom(zoom_factor)
           /\ position' = <<RAdd(old_position[1], delta_scene[1]),
                            RAdd(old_position[2], delta_scene[2])>>

\* _zoom_to_cursor(cursor_pos, zoom_factor): sets self._zoom, self._position
zoom_to_cursor(cursor_pos, zoom_factor) ==
    \E old_position \in {position},
       scene_pos_before \in {screen_to_scene(cursor_pos)},
       scene_pos_after \in
           {screen_to_scene_with_zoom(cursor_pos, new_zoom(zoom_factor))} :
       LET delta_scene == <<RSub(scene_pos_after[1], scene_pos_before[1]),
                            RSub(scene_pos_after[2], scene_pos_before[2])>>
       IN  /\ zoom' = new_zoom(zoom_factor)
           /\ position' = <<RSub(old_position[1], delta_scene[1]),
                            RSub(old_position[2], delta_scene[2])>>

\* The anchor of the keyboard zoom without the test of the cursor position.
zoom_anchor_always_center ==
    <<RDiv(R(size[1]), R(2)), RDiv(R(size[2]), R(2))>>

\* self._last_mouse_pos if self._last_mouse_pos != QPointF(0, 0)
\* else QPointF(self.width()/2, self.height()/2)
zoom_anchor ==
    IF last_mouse_pos # Pt(0, 0) THEN last_mouse_pos
    ELSE <<RDiv(R(size[1]), R(2)), RDiv(R(size[2]), R(2))>>

viewport_center == <<RDiv(R(size[1]), R(2)), RDiv(R(size[2]), R(2))>>

\* _reset_zoom()
reset_zoom_step == zoom_to_cursor(viewport_center, RDiv(R(1), zoom))

\* _center_on moving the camera by scene_pos instead of onto it.
center_on_relative(scene_pos) ==
    position' = <<RAdd(position[1], scene_pos[1]),
                  RAdd(position[2], scene_pos[2])>>

\* _center_on(scene_pos)
center_on(scene_pos) == position' = <<scene_pos[1], scene_pos[2]>>

\* The pan test with the modifier forgotten: any left press starts a pan.
pan_initiating_any_left(button, alt_modifier) ==
    button = "Middle" \/ button = "Left"

\* middle_button or (left_button and alt_modifier)
pan_initiating(button, alt_modifier) ==
    LET left_button == button = "Left"
        middle_button == button = "Middle"
    IN  middle_button \/ (left_button /\ alt_modifier)

\* An exception of the item loop ends the handler before the cursor
\* position is recorded.
mousePressEvent(button, pos, alt_modifier) ==
    LET Clicked(item) == IF item = None THEN <<>> ELSE <<item>>
        ran == [Ran("mousePressEvent", button, pos, R(1))
                   EXCEPT !.alt = alt_modifier]
    IN  /\ Handled
        /\ last' = IF pan_initiating(button, alt_modifier)
                   THEN [ran EXCEPT !.pan_button = button,
                                    !.pan_scene = ran.scene_before,
                                    !.pan_zoom = zoom]
                   ELSE ran
        /\ IF pan_initiating(button, alt_modifier)
           THEN /\ pan_start_pos' = pos
                /\ camera_start_pos' = position
                /\ is_panning' = TRUE
                /\ out' = Quiet
                /\ last_mouse_pos' = pos
           ELSE /\ UNCHANGED <<pan_start_pos, camera_start_pos, is_panning>>
                /\ \E item \in {Bind(screen_to_scene(pos), view_item_at)} :
                      IF item = Raised
                      THEN /\ out' = [Quiet EXCEPT !.raised = TRUE]
                           /\ UNCHANGED last_mouse_pos
                      ELSE /\ out' = [Quiet EXCEPT !.clicked = Clicked(item)]
                           /\ last_mouse_pos' = pos
        /\ UNCHANGED <<position, zoom, scope_visible, size>>
        /\ UNCHANGED sceneVars

\* The drag with the screen delta taken as a scene delta: no division by
\* the zoom.
pan_position_screen_units(mouse_pos) ==
    LET screen_delta == <<RSub(mouse_pos[1], pan_start_pos[1]),
                          RSub(mouse_pos[2], pan_start_pos[2])>>
    IN  <<RAdd(camera_start_pos[1], RNeg(screen_delta[1])),
          RAdd(camera_start_pos[2], RNeg(screen_delta[2]))>>

\* self._camera_start_pos + scene_delta
pan_position(mouse_pos) ==
    LET screen_delta == <<RSub(mouse_pos[1], pan_start_pos[1]),
                          RSub(mouse_pos[2], pan_start_pos[2])>>
        scene_delta == <<RDiv(RNeg(screen_delta[1]), zoom),
                         RDiv(RNeg(screen_delta[2]), zoom)>>
    IN  <<RAdd(camera_start_pos[1], scene_delta[1]),
          RAdd(camera_start_pos[2], scene_delta[2])>>

\* The move dragging the camera whether a pan is under way or not.
moved_position_always_drags(mouse_pos) == pan_position(mouse_pos)

\* The camera position a pointer move leaves.
moved_position(mouse_pos) ==
    IF is_panning THEN pan_position(mouse_pos) ELSE position

mouseMoveEvent(mouse_pos) ==
    /\ Handled
    /\ last' = Ran("mouseMoveEvent", "", mouse_pos, R(1))
    /\ last_mouse_pos' = mouse_pos
    /\ position' = moved_position(mouse_pos)
    /\ UNCHANGED <<zoom, is_panning, pan_start_pos, camera_start_pos,
                   scope_visible, size>>
    /\ UNCHANGED sceneVars
    /\ out' = emit_status([Quiet EXCEPT !.updates = 1])'

\* The name QApplication is bound inside mousePressEvent only: evaluating
\* it here raises NameError.  It is evaluated when the button is the left
\* one and self._is_panning is true (the operands before it short-circuit
\* otherwise); the handler then ends without touching the state.
mouseReleaseEvent(button, alt_modifier) ==
    /\ Handled
    /\ last' = [Ran("mouseReleaseEvent", button, NoPoint, R(1))
                   EXCEPT !.alt = alt_modifier]
    /\ IF button = "Middle"
       THEN /\ is_panning' = FALSE
            /\ pan_start_pos' = Pt(0, 0)
            /\ camera_start_pos' = Pt(0, 0)
            /\ out' = Quiet
       ELSE /\ UNCHANGED <<is_panning, pan_start_pos, camera_start_pos>>
            /\ out' = [Quiet EXCEPT !.raised = (button = "Left" /\ is_panning)]
    /\ UNCHANGED <<position, zoom, last_mouse_pos, scope_visible, size>>
    /\ UNCHANGED sceneVars

\* wheelEvent zooming about the last-known cursor position.
wheelEvent_at_last_mouse_pos(mouse_pos, up) ==
    LET factor == IF up THEN zoom_in_factor ELSE zoom_out_factor
    IN  /\ Handled
        /\ last' = Ran("wheelEvent", "", mouse_pos, factor)
        /\ zoom_to_cursor(last_mouse_pos, factor)
        /\ out' = Quiet
        /\ UNCHANGED <<is_panning, pan_start_pos, camera_start_pos,
                       last_mouse_pos, scope_visible, size>>
        /\ UNCHANGED sceneVars

wheelEvent(mouse_pos, up) ==
    LET factor == IF up THEN zoom_in_factor ELSE zoom_out_factor
    IN  /\ Handled
        /\ last' = Ran("wheelEvent", "", mouse_pos, factor)
        /\ zoom_to_cursor(mouse_pos, factor)
        /\ out' = Quiet
        /\ UNCHANGED <<is_panning, pan_start_pos, camera_start_pos,
                       last_mouse_pos, scope_visible, size>>
        /\ UNCHANGED sceneVars

\* step_size without the adjustment to the zoom level.
step_size_unscaled == R(20)

\* step_size of keyPressEvent
step_size == IF RLt(zoom, R(1)) THEN RDiv(R(20), zoom) ELSE RMul(R(20), zoom)

keyPressEvent(key) ==
    /\ Handled
    /\ CASE key = "Left" ->
              /\ position' = <<RSub(position[1], step_size), position[2]>>
              /\ last' = Ran("keyPressEvent", key, NoPoint, R(1))
              /\ UNCHANGED zoom
         [] key = "Right" ->
              /\ position' = <<RAdd(position[1], step_size), position[2]>>
              /\ last' = Ran("keyPressEvent", key, NoPoint, R(1))
              /\ UNCHANGED zoom
         [] key = "Up" ->
              /\ position' = <<position[1], RSub(position[2], step_size)>>
              /\ last' = Ran("keyPressEvent", key, NoPoint, R(1))
              /\ UNCHANGED zoom
         [] key = "Down" ->
              /\ position' = <<position[1], RAdd(position[2], step_size)>>
              /\ last' = Ran("keyPressEvent", key, NoPoint, R(1))
              /\ UNCHANGED zoom
         [] key \in {"Plus", "Equal"} ->
              /\ zoom_to_cursor(zoom_anchor, zoom_in_factor)
              /\ last' = Ran("keyPressEvent", key, zoom_anchor, zoom_in_factor)
         [] key = "Minus" ->
              /\ zoom_to_cursor(zoom_anchor, zoom_out_factor)
              /\ last' = Ran("keyPressEvent", key, zoom_anchor, zoom_out_factor)
         [] key = "0" ->
              /\ reset_zoom_step
              /\ last' = Ran("keyPressEvent", key, viewport_center,
                             RDiv(R(1), zoom))
         [] key \in {"Home", "H"} ->
              /\ center_on(Pt(0, 0))
              /\ last' = Ran("keyPressEvent", key, NoPoint, R(1))
              /\ UNCHANGED zoom
         [] OTHER ->
              /\ last' = Ran("keyPressEvent", key, NoPoint, R(1))
              /\ UNCHANGED <<position, zoom>>
    /\ UNCHANGED <<is_panning, pan_start_pos, camera_start_pos,
                   last_mouse_pos, scope_visible, size>>
    /\ UNCHANGED sceneVars
    /\ out' = emit_status(Quiet)'

toggle_scope ==
    /\ Handled
    /\ scope_visible' = ~scope_visible
    /\ last' = Ran("toggle_scope", "", NoPoint, R(1))
    /\ out' = [Quiet EXCEPT !.updates = 1]
    /\ UNCHANGED <<position, zoom, is_panning, pan_start_pos,
                   camera_start_pos, last_mouse_pos, size>>
    /\ UNCHANGED sceneVars

zoom_in ==
    /\ Handled
    /\ zoom_to_cursor(zoom_anchor, zoom_in_factor)
    /\ last' = Ran("zoom_in", "", zoom_anchor, zoom_in_factor)
    /\ out' = Quiet
    /\ UNCHANGED <<is_panning, pan_start_pos, camera_start_pos,
                   last_mouse_pos, scope_visible, size>>
    /\ UNCHANGED sceneVars

zoom_out ==
    /\ Handled
    /\ zoom_to_cursor(zoom_anchor, zoom_out_factor)
    /\ last' = Ran("zoom_out", "", zoom_anchor, zoom_out_factor)
    /\ out' = Quiet
    /\ UNCHANGED <<is_panning, pan_start_pos, camera_start_pos,
                   last_mouse_pos, scope_visible, size>>
    /\ UNCHANGED sceneVars

reset_zoom ==
    /\ Handled
    /\ reset_zoom_step
    /\ last' = Ran("reset_zoom", "", viewport_center, RDiv(R(1), zoom))
    /\ out' = Quiet
    /\ UNCHANGED <<is_panning, pan_start_pos, camera_start_pos,
                   last_mouse_pos, scope_visible, size>>
    /\ UNCHANGED sceneVars

center_on_position(x, y) ==
    /\ Handled
    /\ center_on(<<x, y>>)
    /\ last' = Ran("center_on_position", "", NoPoint, R(1))
    /\ out' = Quiet
    /\ UNCHANGED <<zoom, is_panning, pan_start_pos, camera_start_pos,
                   last_mouse_pos, scope_visible, size>>
    /\ UNCHANGED sceneVars

pan_by(dx, dy) ==
    /\ Handled
    /\ position' = <<RAdd(position[1], dx), RAdd(position[2], dy)>>
    /\ last' = Ran("pan_by", "", NoPoint, R(1))
    /\ out' = [Quiet EXCEPT !.updates = 1]
    /\ UNCHANGED <<zoom, is_panning, pan_start_pos, camera_start_pos,
                   last_mouse_pos, scope_visible, size>>
    /\ UNCHANGED sceneVars

\* int(x) of a float x: the fraction is cut off, towards zero
int(x) == IF x[1] >= 0 THEN x[1] \div x[2] ELSE -((-x[1]) \div x[2])

\* One drawing step of a repaint: the layer, the item painted by it (None
\* for the other layers), and where it is drawn: the screen point of the
\* anchor of an item, the pixel column and row of the crosshair lines
\* (NoPoint for the other layers).
Layer(name, item, at) == [layer |-> name, id |-> item, at |-> at]

\* _draw_scope: drawLine(0, y, width, y) and drawLine(x, 0, x, height)
draw_scope ==
    LET x == int(last_mouse_pos[1])
        y == int(last_mouse_pos[2])
    IN  Layer("scope", None, <<x, y>>)

\* _apply_camera_transform: where the painter, after resetTransform,
\* scale(zoom, zoom) and translate(-position.x, -position.y), draws the
\* scene point q.
apply_camera_transform(q) ==
    <<RMul(RSub(q[1], position[1]), zoom),
      RMul(RSub(q[2], position[2]), zoom)>>

\* item.paint(painter): the item is drawn at its own coordinates under the
\* transform of the painter.
paint(item) ==
    Layer("item", item, apply_camera_transform(<<Pool[item].x, Pool[item].y>>))

\* The item loop of paintEvent without the test of item.visible.
paint_items_unfiltered ==
    LET Paint(its) == [i \in 1..Len(its) |-> paint(its[i].id)]
    IN  Bind(get_items, Paint)

\* for item in self._scene_manager.get_items(): if item.visible: item.paint
paint_items ==
    LET Visible(e) == item_visible[e.id]
        Paint(its) == [i \in 1..Len(its) |-> paint(its[i].id)]
    IN  Bind(SelectSeq(get_items, Visible), Paint)

\* paintEvent: the drawing steps, in the order they are made
paintEvent ==
    /\ Handled
    /\ last' = Ran("paintEvent", "", NoPoint, R(1))
    /\ out' = [Quiet EXCEPT !.painted =
                  <<Layer("background", None, NoPoint)>>
                      \o paint_items
                      \o <<Layer("origin_lines", None, NoPoint)>>
                      \o (IF scope_visible THEN <<draw_scope>> ELSE <<>>)]
    /\ UNCHANGED <<position, zoom, is_panning, pan_start_pos,
                   camera_start_pos, last_mouse_pos, scope_visible, size>>
    /\ UNCHANGED sceneVars

(***************************************************************************)
(* The viewport: one SceneView over a small scene, driven by input events *)
(* and by the commands of its public interface.                            *)
(***************************************************************************)
\* Widget sizes: the minimum size set by the constructor, and an odd one.
Sizes == {<<400, 300>>, <<641, 481>>}

\* Screen positions of pointer events.
ScreenPoints == {Pt(0, 0), Pt(200, 150), Pt(350, 300)}

Buttons == {"Left", "Middle", "Right"}

Keys == {"Left", "Right", "Up", "Down", "Plus", "Equal", "Minus", "0",
         "Home", "H", "Escape"}

\* Arguments of set_zoom_level: below, at and above the clamp bounds.
ZoomLevels == {Rat(1, 200), Rat(1, 90), R(90), R(250)}

\* Arguments of center_on_position and pan_by.
ScenePoints == {Pt(150, 150), <<Rat(-37, 4), R(1000)>>}

\* SceneView.__init__
ViewInit ==
    /\ position = Pt(0, 0)
    /\ zoom = R(1)
    /\ is_panning = FALSE
    /\ pan_start_pos = Pt(0, 0)
    /\ camera_start_pos = Pt(0, 0)
    /\ last_mouse_pos = Pt(0, 0)
    /\ scope_visible = TRUE
    /\ last = NeverRan
    /\ out = Quiet
    /\ nevents = 0

\* The most tabs a workspace is given.
MaxTabs == 2

ViewIds == 1..MaxTabs

ManagerIds == 1..MaxTabs

\* SceneWorkspace.__init__: the one tab its call of new_tab opens.
SceneWorkspaceInit ==
    /\ tabs = <<1>>
    /\ current = 1
    /\ scene_manager = [v \in ViewIds |-> IF v = 1 THEN 1 ELSE None]
    /\ views = [v \in ViewIds |-> None]
    /\ managers = [m \in ManagerIds |-> None]

\* SceneManager.__init__ over freshly constructed pool objects
SceneManagerInit ==
    /\ SceneWorkspaceInit
    /\ item_z = [i \in ItemIds |-> PoolZ[i]]
    /\ drawable = Pool[1]
    /\ items = <<>>
    /\ held = [i \in ItemIds |-> 0]
    /\ items_changed_flag = FALSE
    /\ nadds = 0
    /\ signals = <<>>
    /\ query = [op |-> "__init__", arg |-> NoArg, result |-> None]

\* The registry after add_item of objects 1 and 4, in that order.
DemoScene ==
    /\ SceneWorkspaceInit
    /\ item_z = [i \in ItemIds |-> PoolZ[i]]
    /\ drawable = Pool[1]
    /\ item_visible = [i \in ItemIds |-> TRUE]
    /\ item_locked = [i \in ItemIds |-> FALSE]
    /\ items = <<[id |-> 1, seq |-> 1], [id |-> 4, seq |-> 2]>>
    /\ held = [i \in ItemIds |-> IF i \in {1, 4} THEN 1 ELSE 0]
    /\ items_changed_flag = TRUE
    /\ nadds = 2
    /\ signals = <<>>
    /\ query = [op |-> "__init__", arg |-> NoArg, result |-> None]

Init ==
    /\ size \in Sizes
    /\ ViewInit
    /\ DemoScene

Next ==
    \/ \E level \in ZoomLevels : set_zoom_level(level)
    \/ \E b \in Buttons, p \in ScreenPoints, alt \in BOOLEAN :
          mousePressEvent(b, p, alt)
    \/ \E p \in ScreenPoints : mouseMoveEvent(p)
    \/ \E b \in Buttons, alt \in BOOLEAN : mouseReleaseEvent(b, alt)
    \/ \E p \in ScreenPoints, up \in BOOLEAN : wheelEvent(p, up)
    \/ \E k \in Keys : keyPressEvent(k)
    \/ toggle_scope
    \/ zoom_in
    \/ zoom_out
    \/ reset_zoom
    \/ \E q \in ScenePoints : center_on_position(q[1], q[2])
    \/ \E d \in ScenePoints : pan_by(d[1], d[2])
    \/ paintEvent

vars == <<viewVars, sceneVars>>

Spec == Init /\ [][Next]_vars

(***************************************************************************)
(* The registry: one SceneManager, mutated and queried by the application. *)
(* The pool objects are constructed with at most one of them invisible and *)
(* at most one of them locked.                                             *)
(***************************************************************************)
\* The object constructed with visible=False, and the one with locked=True.
HiddenChoices == {None, 2, 3}

LockedChoices == {None, 3, 4}

\* Scene points of hit tests: inside 2 and 3; inside 1, 3 and 4; inside
\* nothing.
QueryPoints == {Pt(400, 200), Pt(150, 150), Pt(0, 0)}

\* Rectangles <<x, y, width, height>> of region queries; the anchor of
\* object 2 lies on the corner of the second; the third overlaps objects 1
\* and 3, whose anchors lie outside it.
QueryRects == { <<R(100), R(100), R(50), R(50)>>,
                <<R(0), R(0), R(350), R(150)>>,
                <<R(130), R(130), R(50), R(50)>> }

SceneInit ==
    /\ size = <<400, 300>>
    /\ ViewInit
    /\ SceneManagerInit
    /\ \E hidden \in HiddenChoices, locked \in LockedChoices :
          /\ item_visible = [i \in ItemIds |-> i # hidden]
          /\ item_locked = [i \in ItemIds |-> i = locked]

SceneNext ==
    \/ \E i \in SolidIds : add_item(i) /\ UNCHANGED viewVars
    \/ \E i \in SolidIds : remove_item(i) /\ UNCHANGED viewVars
    \/ clear_items /\ UNCHANGED viewVars
    \/ GetItems /\ UNCHANGED viewVars
    \/ \E p \in QueryPoints : GetItemAtPosition(p) /\ UNCHANGED viewVars
    \/ \E r \in QueryRects : GetItemsInRect(r) /\ UNCHANGED viewVars

SceneSpec == SceneInit /\ [][SceneNext]_vars

(***************************************************************************)
(* The camera transform: a viewport whose camera position and zoom have    *)
(* been set (center_on_position, set_zoom_level), on which the conversions *)
(* and _zoom_to_cursor are applied to chosen screen and scene points.      *)
(***************************************************************************)
\* Number of _zoom_to_cursor calls applied in a run of TransformSpec.
MaxZoomSteps == 1

CameraPositions == {Pt(0, 0), Pt(150, 150), <<Rat(-37, 4), R(1000)>>}

CameraZooms == {Rat(1, 100), Rat(4, 5), R(1), Rat(7, 3), R(100)}

\* Zoom factors: the two of the handlers, and others that do and do not
\* drive the zoom to a clamp bound.
Factors == {Rat(5, 4), Rat(4, 5), Rat(1, 3), R(1000)}

TransformInit ==
    /\ size \in Sizes
    /\ position \in CameraPositions
    /\ zoom \in CameraZooms
    /\ is_panning = FALSE
    /\ pan_start_pos = Pt(0, 0)
    /\ camera_start_pos = Pt(0, 0)
    /\ last_mouse_pos = Pt(0, 0)
    /\ scope_visible = TRUE
    /\ last = NeverRan
    /\ out = Quiet
    /\ nevents = 0
    /\ SceneManagerInit
    /\ item_visible = [i \in ItemIds |-> TRUE]
    /\ item_locked = [i \in ItemIds |-> FALSE]

\* A conversion leaves the viewport as it is; its result is recorded.
Convert(op, arg, result) ==
    /\ query' = [op |-> op, arg |-> arg, result |-> result]
    /\ UNCHANGED <<objectVars, items, held, items_changed_flag, nadds,
                   signals>>
    /\ UNCHANGED viewVars

ScreenToScene(screen_pos) ==
    Convert("screen_to_scene", screen_pos, screen_to_scene(screen_pos))

SceneToScreen(scene_pos) ==
    Convert("scene_to_screen", scene_pos, scene_to_screen(scene_pos))

ZoomToCursor(cursor_pos, zoom_factor) ==
    /\ nevents < MaxZoomSteps
    /\ nevents' = nevents + 1
    /\ zoom_to_cursor(cursor_pos, zoom_factor)
    /\ last' = Ran("zoom_to_cursor", "", cursor_pos, zoom_factor)
    /\ query' = [op |-> "zoom_to_cursor", arg |-> NoArg, result |-> None]
    /\ UNCHANGED <<is_panning, pan_start_pos, camera_start_pos,
                   last_mouse_pos, scope_visible, size, out>>
    /\ UNCHANGED <<objectVars, items, held, items_changed_flag, nadds,
                   signals>>

TransformNext ==
    \/ \E p \in ScreenPoints \cup {viewport_center} : ScreenToScene(p)
    \/ \E q \in ScenePoints \cup {position} : SceneToScreen(q)
    \/ \E p \in ScreenPoints \cup {viewport_center}, f \in Factors :
          ZoomToCursor(p, f)

TransformSpec == TransformInit /\ [][TransformNext]_vars

(***************************************************************************)
(* One handler, from any state the viewport can be in: the camera at any   *)
(* position and zoom of the range, the cursor seen or not yet seen, a pan  *)
(* under way or not.  The handler run is the last of the event window.     *)
(***************************************************************************)
\* _last_mouse_pos: the value of the constructor and a point off centre.
SeenCursors == {Pt(0, 0), Pt(350, 300)}

\* The pan state: idle (anchors at their reset value), or panning since a
\* press of the given button at (200, 150) with the camera at (150, 150)
\* and the zoom as it is.
PanStates ==
    { [panning |-> FALSE, start |-> Pt(0, 0), camera |-> Pt(0, 0),
       button |-> ""],
      [panning |-> TRUE, start |-> Pt(200, 150), camera |-> Pt(150, 150),
       button |-> "Middle"] }

StepInit ==
    /\ size \in Sizes
    /\ position \in {Pt(0, 0), <<Rat(-37, 4), R(1000)>>}
    /\ zoom \in CameraZooms
    /\ last_mouse_pos \in SeenCursors
    /\ \E pan \in PanStates :
          /\ is_panning = pan.panning
          /\ pan_start_pos = pan.start
          /\ camera_start_pos = pan.camera
          /\ last = [NeverRan EXCEPT
                        !.pan_button = pan.button,
                        !.pan_scene =
                            IF pan.panning
                            THEN <<RAdd(pan.camera[1],
                                        RDiv(RSub(pan.start[1],
                                                  viewport_center[1]), zoom)),
                                   RAdd(pan.camera[2],
                                        RDiv(RSub(pan.start[2],
                                                  viewport_center[2]), zoom))>>
                            ELSE NoPoint,
                        !.pan_zoom = IF pan.panning THEN zoom ELSE R(1)]
    /\ scope_visible = TRUE
    /\ out = Quiet
    /\ nevents = MaxEvents - 1
    /\ DemoScene

StepSpec == StepInit /\ [][Next]_vars

(***************************************************************************)
(* Repaints: a viewport over a registry that the application fills, with   *)
(* at most one object constructed invisible; the cursor moves, the scope   *)
(* is toggled and the widget is repainted.                                 *)
(***************************************************************************)
\* The objects added to the painted scene: 1 and 4 share z_index 0, 3 has
\* z_index 1.
PaintedIds == {1, 3, 4}

\* Cursor positions of the pointer moves: on a pixel corner and inside a
\* pixel.
PaintCursors == {Pt(200, 150), <<Rat(701, 2), Rat(599, 2)>>}

PaintInit ==
    /\ size = <<400, 300>>
    /\ ViewInit
    /\ SceneManagerInit
    /\ \E hidden \in {None, 1, 4} :
          item_visible = [i \in ItemIds |-> i # hidden]
    /\ item_locked = [i \in ItemIds |-> FALSE]

PaintNext ==
    \/ \E i \in PaintedIds : add_item(i) /\ UNCHANGED viewVars
    \/ \E p \in PaintCursors : mouseMoveEvent(p)
    \/ toggle_scope
    \/ paintEvent

PaintSpec == PaintInit /\ [][PaintNext]_vars

(***************************************************************************)
(* A scene that may hold an ellipse of width 0: the application fills the  *)
(* registry and hit-tests it, and the viewport over it handles pointer and *)
(* key events.                                                             *)
(***************************************************************************)
\* The objects added: the rectangles 1 (z_index 0) and 3 (z_index 1), and
\* the ellipse of width 0 (z_index 0).
DegenerateIds == {1, 3, 5}

\* Keys pressed over the scene: one without a branch in keyPressEvent and
\* one with.
DegenerateKeys == {"Escape", "Home"}

\* Screen positions of the pointer events: the viewport centre, over no
\* item, and a point over objects 1 and 3.
DegeneratePoints == {Pt(200, 150), Pt(350, 300)}

DegenerateInit ==
    /\ size = <<400, 300>>
    /\ ViewInit
    /\ SceneManagerInit
    /\ item_visible = [i \in ItemIds |-> TRUE]
    /\ \E locked \in {None, 5} :
          item_locked = [i \in ItemIds |-> i = locked]

DegenerateNext ==
    \/ \E i \in DegenerateIds : add_item(i) /\ UNCHANGED viewVars
    \/ \E p \in QueryPoints : GetItemAtPosition(p) /\ UNCHANGED viewVars
    \/ \E p \in DegeneratePoints : mousePressEvent("Left", p, FALSE)
    \/ \E p \in DegeneratePoints : mouseMoveEvent(p)
    \/ \E k \in DegenerateKeys : keyPressEvent(k)

DegenerateSpec == DegenerateInit /\ [][DegenerateNext]_vars

(***************************************************************************)
(* A drag: pointer and wheel events only, from an idle viewport whose      *)
(* camera has been placed and zoomed.  The window holds a press, a wheel   *)
(* notch and a move.                                                       *)
(***************************************************************************)
\* The events of the window.
DragEvents == 3

\* The zoom the window starts from: inside the range and at its upper bound.
DragZooms == {R(1), Rat(7, 3), R(100)}

DragInit ==
    /\ size = <<400, 300>>
    /\ position \in {Pt(0, 0), <<Rat(-37, 4), R(1000)>>}
    /\ zoom \in DragZooms
    /\ is_panning = FALSE
    /\ pan_start_pos = Pt(0, 0)
    /\ camera_start_pos = Pt(0, 0)
    /\ last_mouse_pos = Pt(0, 0)
    /\ scope_visible = TRUE
    /\ last = NeverRan
    /\ out = Quiet
    /\ nevents = MaxEvents - DragEvents
    /\ DemoScene

DragNext ==
    \/ \E p \in ScreenPoints : mousePressEvent("Middle", p, FALSE)
    \/ \E p \in ScreenPoints : mousePressEvent("Left", p, TRUE)
    \/ \E p \in ScreenPoints : mouseMoveEvent(p)
    \/ \E p \in ScreenPoints, up \in BOOLEAN : wheelEvent(p, up)
    \/ mouseReleaseEvent("Middle", FALSE)

DragSpec == DragInit /\ [][DragNext]_vars

(***************************************************************************)
(* Restacking: the application assigns a new z_index to objects, in the    *)
(* registry or not, between add_item calls, hit tests and clicks.          *)
(***************************************************************************)
\* item.z_index = value: a plain attribute of the Drawable; the registry is
\* not told.
set_z_index(item, value) ==
    /\ item_z[item] # value
    /\ item_z' = [item_z EXCEPT ![item] = value]
    /\ query' = [op |-> "z_index", arg |-> item, result |-> None]
    /\ signals' = <<>>
    /\ UNCHANGED <<item_visible, item_locked, drawable, workspaceVars, items,
                   held, items_changed_flag, nadds>>
    /\ UNCHANGED viewVars

\* The objects restacked: 1 is constructed with z_index 0, 3 with 1; both
\* contain the scene point (150, 150).
ReorderIds == {1, 3}

\* The values assigned.
ZValues == {0, 2}

ReorderInit ==
    /\ size = <<400, 300>>
    /\ ViewInit
    /\ SceneManagerInit
    /\ item_visible = [i \in ItemIds |-> TRUE]
    /\ item_locked = [i \in ItemIds |-> FALSE]

ReorderNext ==
    \/ \E i \in ReorderIds : add_item(i) /\ UNCHANGED viewVars
    \/ \E i \in ReorderIds, z \in ZValues : set_z_index(i, z)
    \/ \E p \in QueryPoints : GetItemAtPosition(p) /\ UNCHANGED viewVars
    \/ \E p \in ScreenPoints : mousePressEvent("Left", p, FALSE)

ReorderSpec == ReorderInit /\ [][ReorderNext]_vars

(***************************************************************************)
(* Two zoom steps in a row, by the wheel or by the zoom commands, from a   *)
(* viewport whose camera has been placed and zoomed.                       *)
(***************************************************************************)
\* The zoom the steps start from: the clamp bounds, levels from which one
\* step reaches past a bound, and levels from which none does.
RoundTripZooms ==
    {Rat(1, 100), Rat(1, 90), R(1), Rat(7, 3), R(90), R(100)}

RoundTripInit ==
    /\ size = <<400, 300>>
    /\ position \in {Pt(0, 0), <<Rat(-37, 4), R(1000)>>}
    /\ zoom \in RoundTripZooms
    /\ is_panning = FALSE
    /\ pan_start_pos = Pt(0, 0)
    /\ camera_start_pos = Pt(0, 0)
    /\ last_mouse_pos \in SeenCursors
    /\ scope_visible = TRUE
    /\ last = NeverRan
    /\ out = Quiet
    /\ nevents = MaxEvents - 2
    /\ DemoScene

RoundTripNext ==
    \/ \E p \in ScreenPoints, up \in BOOLEAN : wheelEvent(p, up)
    \/ zoom_in
    \/ zoom_out

RoundTripSpec == RoundTripInit /\ [][RoundTripNext]_vars

(***************************************************************************)
(* The workspace: tabs, each holding a SceneView over a SceneManager.  The *)
(* camera and registry variables describe the view of the selected tab and *)
(* the manager of that view; views and managers hold the others.           *)
(***************************************************************************)
\* The attributes of the SceneView of the selected tab.
ViewState ==
    [position |-> position, zoom |-> zoom, is_panning |-> is_panning,
     pan_start_pos |-> pan_start_pos, camera_start_pos |-> camera_start_pos,
     last_mouse_pos |-> last_mouse_pos, scope_visible |-> scope_visible,
     size |-> size]

\* The attributes of the SceneManager of that view.
ManagerState ==
    [items |-> items, held |-> held,
     items_changed_flag |-> items_changed_flag]

\* SceneView.__init__, for a widget of size sz
NewView(sz) ==
    [position |-> Pt(0, 0), zoom |-> R(1), is_panning |-> FALSE,
     pan_start_pos |-> Pt(0, 0), camera_start_pos |-> Pt(0, 0),
     last_mouse_pos |-> Pt(0, 0), scope_visible |-> TRUE, size |-> sz]

\* SceneManager.__init__
NewManager ==
    [items |-> <<>>, held |-> [i \in ItemIds |-> 0],
     items_changed_flag |-> FALSE]

\* self.currentWidget().widget()
currentWidget == tabs[current]

\* What tab v shows: the attributes of its view and of the manager of that
\* view.
TabState(v) ==
    [view |-> IF v = currentWidget THEN ViewState ELSE views[v],
     manager |-> IF scene_manager[v] = scene_manager[currentWidget]
                 THEN ManagerState
                 ELSE managers[scene_manager[v]]]

\* The tab of view v becomes the selected one; w holds the attributes of v
\* and, where the manager m of v is not the manager of the view left, r
\* those of m.
Select(v, m, w, r) ==
    /\ views' = [views EXCEPT ![currentWidget] = ViewState]
    /\ position' = w.position
    /\ zoom' = w.zoom
    /\ is_panning' = w.is_panning
    /\ pan_start_pos' = w.pan_start_pos
    /\ camera_start_pos' = w.camera_start_pos
    /\ last_mouse_pos' = w.last_mouse_pos
    /\ scope_visible' = w.scope_visible
    /\ size' = w.size
    /\ IF m = scene_manager[currentWidget]
       THEN UNCHANGED <<items, held, items_changed_flag, managers>>
       ELSE /\ managers' = [managers EXCEPT
                               ![scene_manager[currentWidget]] = ManagerState]
            /\ items' = r.items
            /\ held' = r.held
            /\ items_changed_flag' = r.items_changed_flag
    /\ out' = Quiet
    /\ signals' = <<>>
    /\ UNCHANGED <<last, nevents, nadds, item_z, item_visible, item_locked,
                   drawable>>

\* QTabWidget.setCurrentIndex(index): the user selects another tab.
setCurrentIndex(index) ==
    /\ index \in 1..Len(tabs)
    /\ index # current
    /\ LET v == tabs[index]
           m == scene_manager[v]
       IN  IF m = scene_manager[currentWidget]
           THEN Select(v, m, views[v], ManagerState)
           ELSE Select(v, m, views[v], managers[m])
    /\ current' = index
    /\ query' = [op |-> "setCurrentIndex", arg |-> index, result |-> None]
    /\ UNCHANGED <<tabs, scene_manager>>

\* new_tab handing every view the manager of the first tab.
SceneManager_shared == scene_manager[tabs[1]]

\* scene_manager = SceneManager(): a manager no other view refers to.
SceneManager_new == Len(tabs) + 1

\* new_tab(title): the new tab is appended and selected, its view, of the
\* size of the view it covers, centred on the scene origin.
new_tab ==
    /\ Len(tabs) < MaxTabs
    /\ LET v == Len(tabs) + 1
           m == SceneManager_new
       IN  /\ tabs' = Append(tabs, v)
           /\ scene_manager' = [scene_manager EXCEPT ![v] = m]
           /\ current' = Len(tabs) + 1
           /\ Select(v, m,
                     [NewView(size) EXCEPT !.position = <<R(0), R(0)>>],
                     NewManager)
           /\ query' = [op |-> "new_tab", arg |-> NoArg, result |-> v]

\* SceneWorkspace.zoom_in, zoom_out, reset_zoom and toggle_scope: the call is
\* passed to the view of the selected tab.
workspace_zoom_in == current \in 1..Len(tabs) /\ zoom_in

workspace_zoom_out == current \in 1..Len(tabs) /\ zoom_out

workspace_reset_zoom == current \in 1..Len(tabs) /\ reset_zoom

workspace_toggle_scope == current \in 1..Len(tabs) /\ toggle_scope

\* The object the application adds to the scenes of the tabs.
WorkspaceIds == {1}

WorkspaceInit ==
    /\ size = <<400, 300>>
    /\ ViewInit
    /\ SceneManagerInit
    /\ item_visible = [i \in ItemIds |-> TRUE]
    /\ item_locked = [i \in ItemIds |-> FALSE]

\* The most calls that open a tab, run a workspace command or add an item,
\* the tab of SceneWorkspace.__init__ included.
MaxWorkspaceCalls == 5

WorkspaceCalls == Len(tabs) + nevents + nadds

WorkspaceNext ==
    \/ WorkspaceCalls < MaxWorkspaceCalls /\ new_tab
    \/ \E index \in 1..MaxTabs : setCurrentIndex(index)
    \/ WorkspaceCalls < MaxWorkspaceCalls /\ workspace_zoom_in
    \/ WorkspaceCalls < MaxWorkspaceCalls /\ workspace_zoom_out
    \/ WorkspaceCalls < MaxWorkspaceCalls /\ workspace_reset_zoom
    \/ WorkspaceCalls < MaxWorkspaceCalls /\ workspace_toggle_scope
    \/ /\ WorkspaceCalls < MaxWorkspaceCalls
       /\ \E i \in WorkspaceIds : add_item(i) /\ UNCHANGED viewVars
    \/ clear_items /\ UNCHANGED viewVars

WorkspaceSpec == WorkspaceInit /\ [][WorkspaceNext]_vars

(***************************************************************************)
(* The zoom as the double the interpreter stores: set_zoom_level(level)    *)
(* followed by a reset of the zoom (key 0 or reset_zoom).                  *)
(***************************************************************************)
\* The literal 0.01: the double nearest to 1/100.
min_zoom64 == f64_recip(<<100, 0>>)

max_zoom64 == Float64(<<100, 0>>)

\* self._zoom after set_zoom_level(level)
set_zoom_level64(level) ==
    f64_max(min_zoom64, f64_min(max_zoom64, Float64(level)))

\* self._zoom after _reset_zoom() at self._zoom = z: new_zoom of
\* _zoom_to_cursor with zoom_factor = 1.0 / self._zoom
reset_zoom64(z) ==
    f64_max(min_zoom64, f64_min(max_zoom64, f64_mul(z, f64_recip(z))))

\* Levels of the range [0.01, 100]: the integers, the zooms that wheel-up
\* events leave (1.25^k), and some binary fractions.
Levels64 ==
    {<<n, 0>> : n \in 1..100} \cup {<<5^k, 0 - 2 * k>> : k \in 1..11}
        \cup {<<3, -2>>, <<1, -6>>, <<49, -6>>}

ZoomInit ==
    /\ size = <<400, 300>>
    /\ ViewInit
    /\ SceneManagerInit
    /\ item_visible = [i \in ItemIds |-> TRUE]
    /\ item_locked = [i \in ItemIds |-> FALSE]

SetZoomLevel64(level) ==
    Convert("set_zoom_level", level, set_zoom_level64(level))

ResetZoom64 ==
    /\ query.op = "set_zoom_level"
    /\ Convert("reset_zoom", query.arg, reset_zoom64(query.arg))

ZoomNext ==
    \/ \E level \in Levels64 : SetZoomLevel64(level)
    \/ ResetZoom64

ZoomSpec == ZoomInit /\ [][ZoomNext]_vars

(***************************************************************************)
(* Properties of the camera transform (TransformSpec).                     *)
(***************************************************************************)
\* C2: after _zoom_to_cursor(S, f) the scene point under S, computed with
\* the new camera position and zoom, is the scene point that was under S
\* before the call, also when the new zoom saturates at a clamp bound.
C2_ZoomToCursorInvariance ==
    last.op = "zoom_to_cursor" =>
        screen_to_scene(last.cursor) = last.scene_before

\* _zoom_to_cursor has run at a cursor away from the viewport centre with a
\* factor that drives the zoom beyond 100.0: the zoom stored is 100.0 and
\* the camera has moved.
C2_Witness ==
    /\ last.op = "zoom_to_cursor"
    /\ last.cursor # viewport_center
    /\ RLt(R(100), RMul(last.zoom_before, last.factor))
    /\ zoom = R(100)
    /\ position # last.position_before

\* C3: scene_to_screen(screen_to_scene(p)) = p for every screen point p and
\* screen_to_scene(scene_to_screen(q)) = q for every scene point q.
C3_TransformInvertible ==
    /\ query.op = "screen_to_scene" =>
          scene_to_screen(query.result) = query.arg
    /\ query.op = "scene_to_screen" =>
          screen_to_scene(query.result) = query.arg

\* A scene point has been converted to the screen by a camera away from
\* the origin, at a zoom other than 1, in a widget of odd size.
C3_Witness ==
    /\ query.op = "scene_to_screen"
    /\ position # Pt(0, 0)
    /\ zoom # R(1)
    /\ size = <<641, 481>>
    /\ query.arg # position
    /\ query.result[1][2] # 1

\* C10: screen_to_scene((w/2, h/2)) is the camera position; a camera at
\* (0,0) with zoom 1.0 in a 400 by 300 viewport maps (200,150) to (0,0).
C10_CenterMapsToCamera ==
    /\ (query.op = "screen_to_scene" /\ query.arg = viewport_center) =>
          query.result = position
    /\ (query.op = "screen_to_scene" /\ query.arg = Pt(200, 150)
           /\ position = Pt(0, 0) /\ zoom = R(1) /\ size = <<400, 300>>) =>
          query.result = Pt(0, 0)

\* The centre of a widget of odd size has been converted by a camera away
\* from the origin at a zoom other than 1.
C10_Witness ==
    /\ query.op = "screen_to_scene"
    /\ size = <<641, 481>>
    /\ query.arg = <<Rat(641, 2), Rat(481, 2)>>
    /\ position = <<Rat(-37, 4), R(1000)>>
    /\ zoom = Rat(7, 3)
    /\ query.result = position

(***************************************************************************)
(* Drawable geometry: one Drawable is constructed and its contains_point   *)
(* and get_bounding_box are called.                                        *)
(***************************************************************************)
Shapes ==
    { Ellipse(0, 0, 100, 50), Ellipse(-50, -25, 100, 50),
      EllipseItem(0, 0, 100, 50), EllipseItem(-50, -25, 100, 50),
      Rectangle(0, 0, 10, 10), Rectangle(-5, 40, 65, 10),
      Rectangle(60, 0, 0, 0),
      Text(0, 0), Text(-40, -10),
      WidgetWrapper(0, 0, 10, 10), WidgetWrapper(49, -20, 11, 20) }

GeomPoints ==
    { Pt(0, 0), Pt(60, 0), Pt(49, 0), Pt(10, 10), Pt(10, 11), Pt(11, 10),
      Pt(-1, 0), Pt(100, 20), Pt(101, 20), Pt(50, 25), Pt(60, 50),
      <<Rat(21, 2), R(5)>> }

GeomInit ==
    /\ size = <<400, 300>>
    /\ ViewInit
    /\ SceneManagerInit
    /\ item_visible = [i \in ItemIds |-> TRUE]
    /\ item_locked = [i \in ItemIds |-> FALSE]

GeomConstruct ==
    /\ query.op = "__init__"
    /\ \E d \in Shapes : drawable' = d
    /\ query' = [op |-> "Drawable", arg |-> NoArg, result |-> None]
    /\ UNCHANGED <<item_z, item_visible, item_locked, workspaceVars, items,
                   held, items_changed_flag, nadds, signals>>
    /\ UNCHANGED viewVars

GeomCall(op, arg, result) ==
    /\ query.op # "__init__"
    /\ query' = [op |-> op, arg |-> arg, result |-> result]
    /\ UNCHANGED <<objectVars, items, held, items_changed_flag, nadds,
                   signals>>
    /\ UNCHANGED viewVars

ContainsPoint(point) ==
    GeomCall("contains_point", point, contains_point(drawable, point))

GetBoundingBox ==
    GeomCall("get_bounding_box", NoArg, get_bounding_box(drawable))

GeomNext ==
    \/ GeomConstruct
    \/ \E p \in GeomPoints : ContainsPoint(p)
    \/ GetBoundingBox

GeomSpec == GeomInit /\ [][GeomNext]_vars

(***************************************************************************)
(* Properties of the Drawable geometry (GeomSpec).                         *)
(***************************************************************************)
IsEllipse(d, x, y, w, h) ==
    /\ d.kind \in {"Ellipse", "EllipseItem"}
    /\ d.x = R(x) /\ d.y = R(y) /\ d.width = R(w) /\ d.height = R(h)

\* C8, as claimed: the Ellipse at position (0,0) with width 100 and height
\* 50 contains (0,0) and (49,0) and does not contain (60,0).
C8_EllipseAtOrigin_Claimed ==
    (query.op = "contains_point" /\ IsEllipse(drawable, 0, 0, 100, 50)) =>
        /\ query.arg = Pt(0, 0) => query.result = TRUE
        /\ query.arg = Pt(60, 0) => query.result = FALSE
        /\ query.arg = Pt(49, 0) => query.result = TRUE

\* C8, amended: the position is the top-left corner of the bounding box.
\* The Ellipse at position (0,0) with width 100 and height 50 has its
\* centre at (50,25) and contains none of (0,0), (60,0), (49,0); the
\* Ellipse centred at (0,0), at position (-50,-25), contains (0,0) and
\* (49,0) and does not contain (60,0).
C8_EllipseContainment ==
    query.op = "contains_point" =>
        /\ IsEllipse(drawable, 0, 0, 100, 50) =>
              /\ query.arg \in {Pt(0, 0), Pt(60, 0), Pt(49, 0)}
                    => query.result = FALSE
              /\ query.arg = Pt(50, 25) => query.result = TRUE
        /\ IsEllipse(drawable, -50, -25, 100, 50) =>
              /\ query.arg = Pt(0, 0) => query.result = TRUE
              /\ query.arg = Pt(60, 0) => query.result = FALSE
              /\ query.arg = Pt(49, 0) => query.result = TRUE

\* contains_point((49,0)) has been called on the Ellipse centred at (0,0).
C8_Witness ==
    /\ query.op = "contains_point"
    /\ drawable = Ellipse(-50, -25, 100, 50)
    /\ query.arg = Pt(49, 0)
    /\ query.result = TRUE

\* C9: for Rectangle, Text and WidgetWrapper, contains_point(p) is true
\* exactly when x <= p.x <= x+w and y <= p.y <= y+h for the bounding box
\* (x,y,w,h) of the item; the Rectangle at (0,0) of size (10,10) contains
\* (0,0) and (10,10).
C9_BoxContainment ==
    (query.op = "contains_point"
        /\ drawable.kind \in {"Rectangle", "Text", "WidgetWrapper"}) =>
        LET box == get_bounding_box(drawable)
            p == query.arg
        IN  /\ query.result =
                  (/\ RLe(box[1], p[1]) /\ RLe(p[1], RAdd(box[1], box[3]))
                   /\ RLe(box[2], p[2]) /\ RLe(p[2], RAdd(box[2], box[4])))
            /\ (drawable = Rectangle(0, 0, 10, 10)
                   /\ p \in {Pt(0, 0), Pt(10, 10)}) => query.result = TRUE
            /\ drawable.kind = "Text" => box[3] = R(100) /\ box[4] = R(20)

\* contains_point has been called on a Text at the bottom-right corner of
\* its 100 by 20 box.
C9_Witness ==
    /\ query.op = "contains_point"
    /\ drawable = Text(0, 0)
    /\ query.arg = Pt(100, 20)
    /\ query.result = TRUE

(***************************************************************************)
(* Properties of the registry (SceneSpec).                                 *)
(***************************************************************************)
\* The entries of the registry that are visible, unlocked and contain pos.
Candidates(pos) ==
    {k \in 1..Len(items) :
        /\ item_visible[items[k].id] /\ ~item_locked[items[k].id]
        /\ contains_point(Pool[items[k].id], pos)}

\* C4: get_items returns exactly the items held, in ascending z_index
\* order, items of equal z_index in the order they were added.
C4_GetItemsOrder ==
    query.op = "get_items" =>
        LET r == query.result
        IN  /\ \A i \in ItemIds :
                  Cardinality({k \in 1..Len(r) : r[k].id = i}) = held[i]
            /\ \A j, k \in 1..Len(r) :
                  j < k =>
                     /\ item_z[r[j].id] <= item_z[r[k].id]
                     /\ item_z[r[j].id] = item_z[r[k].id]
                           => r[j].seq < r[k].seq

\* get_items has returned three entries, one of them added after an entry
\* it precedes, two of them of equal z_index.
C4_Witness ==
    /\ query.op = "get_items"
    /\ Len(query.result) = 3
    /\ \E j, k \in 1..3 : j < k /\ query.result[j].seq > query.result[k].seq
    /\ \E j, k \in 1..3 :
          j < k /\ item_z[query.result[j].id] = item_z[query.result[k].id]

\* C5: when several visible, unlocked items contain P, the hit test returns
\* the one of greatest z_index, and among those of greatest z_index the
\* one added last.
C5_HitTestPriority ==
    (query.op = "get_item_at_position"
        /\ Cardinality(Candidates(query.arg)) >= 2) =>
        \E k \in Candidates(query.arg) :
            /\ query.result = items[k].id
            /\ \A j \in Candidates(query.arg) :
                  \/ item_z[items[j].id] < item_z[items[k].id]
                  \/ /\ item_z[items[j].id] = item_z[items[k].id]
                     /\ items[j].seq <= items[k].seq

\* A hit test at a point inside three held items, two of which share the
\* greatest z_index, the one returned having been added after the other.
C5_Witness ==
    /\ query.op = "get_item_at_position"
    /\ Cardinality(Candidates(query.arg)) = 3
    /\ \E j, k \in Candidates(query.arg) :
          /\ items[j].id # items[k].id
          /\ item_z[items[j].id] = item_z[items[k].id]
          /\ items[j].seq < items[k].seq
          /\ query.result = items[k].id
          /\ \A m \in Candidates(query.arg) :
                item_z[items[m].id] <= item_z[items[k].id]

\* C6: a locked or invisible item is never returned by
\* get_item_at_position and never part of the result of get_items_in_rect.
C6_LockVisibilityExclusion ==
    /\ (query.op = "get_item_at_position" /\ query.result # None) =>
          item_visible[query.result] /\ ~item_locked[query.result]
    /\ query.op = "get_items_in_rect" =>
          \A k \in 1..Len(query.result) :
              item_visible[query.result[k]] /\ ~item_locked[query.result[k]]

\* A hit test at a point inside a held item that is locked, and a region
\* query whose rectangle holds the anchor of a held item that is invisible.
C6_Witness ==
    /\ query.op = "get_item_at_position"
    /\ \E k \in 1..Len(items) :
          /\ item_locked[items[k].id]
          /\ contains_point(Pool[items[k].id], query.arg)
          /\ \A j \in 1..Len(items) : item_z[items[j].id] <= item_z[items[k].id]
    /\ query.result # None

\* C7: the hit test returns an item only if the item contains P, and none
\* exactly when no visible unlocked item contains P; in the scene of
\* Rectangle(100,100,200,100,z=0) and Ellipse(350,150,150,150,z=1) it
\* returns the ellipse at (400,200), the rectangle at (150,150) and none
\* at (0,0).
C7_HitTestResult ==
    query.op = "get_item_at_position" =>
        /\ query.result # None =>
              /\ held[query.result] > 0
              /\ contains_point(Pool[query.result], query.arg)
        /\ query.result = None <=> Candidates(query.arg) = {}
        /\ (Ids(items) = <<1, 2>> /\ Candidates(Pt(400, 200)) # {}
                /\ Candidates(Pt(150, 150)) # {}) =>
              /\ query.arg = Pt(400, 200) => query.result = 2
              /\ query.arg = Pt(150, 150) => query.result = 1
              /\ query.arg = Pt(0, 0) => query.result = None

\* The hit test at (0,0) in the scene of the rectangle and the ellipse,
\* both visible and unlocked.
C7_Witness ==
    /\ query.op = "get_item_at_position"
    /\ Ids(items) = <<1, 2>>
    /\ item_visible[1] /\ ~item_locked[1] /\ item_visible[2] /\ ~item_locked[2]
    /\ query.arg = Pt(0, 0)
    /\ query.result = None

(***************************************************************************)
(* Properties of the viewport (Spec).                                      *)
(***************************************************************************)
\* C1: in every reachable state of a viewport the stored zoom satisfies
\* 0.01 <= zoom <= 100.0, hence is strictly positive.
C1_ZoomInRange ==
    /\ RLe(Rat(1, 100), zoom)
    /\ RLe(zoom, R(100))
    /\ zoom[1] > 0

\* A wheel-up event has been handled at a zoom whose product with the
\* factor exceeds 100.0, and the zoom stored is 100.0.
C1_Witness ==
    /\ last.op = "wheelEvent"
    /\ RLt(last.zoom_before, R(100))
    /\ RLt(R(100), RMul(last.zoom_before, last.factor))
    /\ zoom = R(100)

C12_PanEnd_Claimed ==
    (/\ last.op = "mouseReleaseEvent"
     /\ last.panning_before
     /\ last.key = last.pan_button) => ~is_panning

\* C13, as claimed: a pointer-down handled while the pan flag is set
\* dispatches on_clicked to no item.
C13_ClickOnlyWhenIdle_Claimed ==
    (last.op = "mousePressEvent" /\ last.panning_before) =>
        out.clicked = <<>>

\* The handlers and commands that change the cursor position, the camera
\* position or the zoom.
StatusOps ==
    {"mousePressEvent", "mouseMoveEvent", "wheelEvent", "keyPressEvent",
     "set_zoom_level", "zoom_in", "zoom_out", "reset_zoom", "pan_by",
     "center_on_position"}

\* C14, as claimed: every handled event or command that changes the
\* last-known cursor position, the camera position or the zoom emits
\* exactly one status snapshot before the next event is handled.
C14_StatusEmission_Claimed ==
    (/\ last.op \in StatusOps
     /\ \/ last_mouse_pos # last.last_mouse_before
        \/ position # last.position_before
        \/ zoom # last.zoom_before) => Len(out.status) = 1

\* The scene point under screen point S for a camera at pos with zoom z.
SceneUnder(S, pos, z) ==
    <<RAdd(pos[1], RDiv(RSub(S[1], Rat(size[1], 2)), z)),
      RAdd(pos[2], RDiv(RSub(S[2], Rat(size[2], 2)), z))>>

\* The visible unlocked items of the scene that contain the scene point.
HitsAt(scene_pos) ==
    {e \in {items[i] : i \in 1..Len(items)} :
        /\ item_visible[e.id] /\ ~item_locked[e.id]
        /\ contains_point(Pool[e.id], scene_pos)}

\* C15: every emitted status snapshot holds the last-known cursor position,
\* the scene point under it for the current camera and zoom, the current
\* zoom, and the color of the highest-z visible unlocked item containing
\* that scene point when the item has a color attribute, the default gray
\* (100,100,100) otherwise, also when a lower item under the cursor has a
\* color.
C15_StatusSnapshotConsistent ==
    \A n \in 1..Len(out.status) :
        LET snap == out.status[n]
            hits == HitsAt(snap.scene_pos)
            top == CHOOSE e \in hits : \A u \in hits :
                       \/ item_z[u.id] < item_z[e.id]
                       \/ item_z[u.id] = item_z[e.id] /\ u.seq <= e.seq
        IN  /\ snap.screen_pos = last_mouse_pos
            /\ snap.scene_pos = SceneUnder(last_mouse_pos, position, zoom)
            /\ snap.zoom = zoom
            /\ snap.color = IF hits = {} THEN <<100, 100, 100>>
                            ELSE IF Pool[top.id].color = <<>>
                                 THEN <<100, 100, 100>>
                                 ELSE Pool[top.id].color

\* A snapshot has been emitted with the cursor over the widget wrapper,
\* which has no color, lying on the rectangle, which has one: the snapshot
\* holds the default gray.
C15_Witness ==
    /\ Len(out.status) = 1
    /\ zoom # R(1)
    /\ {e.id : e \in HitsAt(out.status[1].scene_pos)} = {1, 4}
    /\ out.status[1].color = <<100, 100, 100>>

(***************************************************************************)
(* Properties of one handler run from any viewport state (StepSpec).       *)
(***************************************************************************)
\* max(0.01, min(100.0, z))
Clamp(z) ==
    IF RLt(z, Rat(1, 100)) THEN Rat(1, 100)
    ELSE IF RLt(R(100), z) THEN R(100) ELSE z

\* C16: a wheel-up event at cursor S sets zoom to clamp(zoom * 1.25, 0.01,
\* 100) and a wheel-down event sets it to clamp(zoom / 1.25, 0.01, 100);
\* the scene point under S, the wheel event's own position, is unchanged,
\* wherever the last-known cursor position is.
C16_WheelZoom ==
    last.op = "wheelEvent" =>
        /\ last.factor \in {Rat(5, 4), Rat(4, 5)}
        /\ last.factor = Rat(5, 4) =>
              zoom = Clamp(RMul(last.zoom_before, Rat(5, 4)))
        /\ last.factor = Rat(4, 5) =>
              zoom = Clamp(RDiv(last.zoom_before, Rat(5, 4)))
        /\ SceneUnder(last.cursor, position, zoom)
              = SceneUnder(last.cursor, last.position_before,
                           last.zoom_before)
        /\ last_mouse_pos = last.last_mouse_before

\* A wheel-down event has been handled at a position other than the
\* last-known cursor position and other than the viewport centre; the zoom
\* went down and the camera moved.
C16_Witness ==
    /\ last.op = "wheelEvent"
    /\ last.factor = Rat(4, 5)
    /\ last.cursor # last_mouse_pos
    /\ last_mouse_pos # Pt(0, 0)
    /\ last.cursor # viewport_center
    /\ RLt(zoom, last.zoom_before)
    /\ position # last.position_before

\* C17: keys + and = apply factor 1.25 and key - applies factor 1/1.25
\* through zoom-to-cursor, anchored at the last-known cursor position when
\* it differs from (0,0) and at the viewport centre (w/2, h/2) when it
\* equals (0,0); the zoom_in and zoom_out commands use the same anchor rule.
C17_KeyboardZoomAnchor ==
    LET zooms_in == \/ last.op = "keyPressEvent" /\ last.key \in {"Plus", "Equal"}
                    \/ last.op = "zoom_in"
        zooms_out == \/ last.op = "keyPressEvent" /\ last.key = "Minus"
                     \/ last.op = "zoom_out"
        anchor == IF last_mouse_pos # Pt(0, 0) THEN last_mouse_pos
                  ELSE <<Rat(size[1], 2), Rat(size[2], 2)>>
    IN  (zooms_in \/ zooms_out) =>
            /\ last_mouse_pos = last.last_mouse_before
            /\ zooms_in => zoom = Clamp(RMul(last.zoom_before, Rat(5, 4)))
            /\ zooms_out => zoom = Clamp(RDiv(last.zoom_before, Rat(5, 4)))
            /\ SceneUnder(anchor, position, zoom)
                  = SceneUnder(anchor, last.position_before,
                               last.zoom_before)

\* Key + has been handled with the last-known cursor position away from
\* (0,0) and from the viewport centre; the zoom went up and the camera
\* moved.
C17_Witness ==
    /\ last.op = "keyPressEvent" /\ last.key = "Plus"
    /\ last_mouse_pos # Pt(0, 0)
    /\ last_mouse_pos # viewport_center
    /\ RLt(last.zoom_before, zoom)
    /\ position # last.position_before

\* The camera translation an arrow key applied: the distance between the
\* camera positions before and after the handler.
ArrowStep ==
    LET dx == RSub(position[1], last.position_before[1])
        dy == RSub(position[2], last.position_before[2])
    IN  IF dx = R(0) THEN (IF RLt(dy, R(0)) THEN RNeg(dy) ELSE dy)
        ELSE (IF RLt(dx, R(0)) THEN RNeg(dx) ELSE dx)

ArrowKeys == {"Left", "Right", "Up", "Down"}

\* C19, as claimed: for every zoom in [0.01,100] one arrow-key press moves
\* the scene by the same apparent (screen-space) distance: step * zoom is
\* the same constant, 20, at every zoom level.
C19_ArrowApparentStep_Claimed ==
    (last.op = "keyPressEvent" /\ last.key \in ArrowKeys) =>
        RMul(ArrowStep, zoom) = R(20)

\* C20: Left/Right change only camera x by -step/+step and Up/Down change
\* only camera y by -step/+step, where step = 20/zoom when zoom < 1 and
\* step = 20*zoom otherwise; zoom, the pan flag and the other coordinate
\* are unchanged.
C20_ArrowKeysFrame ==
    (last.op = "keyPressEvent" /\ last.key \in ArrowKeys) =>
        LET z == last.zoom_before
            step == IF RLt(z, R(1)) THEN RDiv(R(20), z) ELSE RMul(R(20), z)
            x0 == last.position_before[1]
            y0 == last.position_before[2]
        IN  /\ last.key = "Left" => position = <<RSub(x0, step), y0>>
            /\ last.key = "Right" => position = <<RAdd(x0, step), y0>>
            /\ last.key = "Up" => position = <<x0, RSub(y0, step)>>
            /\ last.key = "Down" => position = <<x0, RAdd(y0, step)>>
            /\ zoom = z
            /\ is_panning = last.panning_before

\* Key Up has been handled at zoom 7/3 while a pan was under way: the
\* camera went up by 20 * 7/3.
C20_Witness ==
    /\ last.op = "keyPressEvent" /\ last.key = "Up"
    /\ last.zoom_before = Rat(7, 3)
    /\ last.panning_before
    /\ position[2] = RSub(last.position_before[2], Rat(140, 3))

(***************************************************************************)
(* Properties of the stored zoom in double precision (ZoomSpec).           *)
(***************************************************************************)
\* C18, as claimed: from any reachable state, key 0 (and the reset_zoom
\* command) leaves the zoom equal to exactly 1.0.
C18_ResetZoomExact_Claimed ==
    query.op = "reset_zoom" => query.result = Float64(<<1, 0>>)

(***************************************************************************)
(* Frame properties of one handler run from any viewport state (StepSpec). *)
(***************************************************************************)
\* C21: keys Home and H set the camera position to (0,0) and leave zoom,
\* the pan flag, the pan anchors and the last-known cursor position
\* unchanged.
C21_HomeRecenters ==
    [][(/\ nevents' = nevents + 1
        /\ last'.op = "keyPressEvent"
        /\ last'.key \in {"Home", "H"}) =>
           /\ position' = <<R(0), R(0)>>
           /\ UNCHANGED <<zoom, is_panning, pan_start_pos, camera_start_pos,
                          last_mouse_pos>>]_vars

\* Key H has been handled during a pan, at a zoom other than 1, with the
\* camera away from the origin and the cursor seen: the camera is at the
\* origin and the pan goes on.
C21_Witness ==
    /\ last.op = "keyPressEvent" /\ last.key = "H"
    /\ last.position_before # Pt(0, 0)
    /\ last.zoom_before # R(1)
    /\ last.panning_before
    /\ last_mouse_pos # Pt(0, 0)
    /\ position = Pt(0, 0)
    /\ is_panning
    /\ pan_start_pos = Pt(200, 150)

\* C22: set_zoom_level(v) stores 0.01 when v < 0.01, 100.0 when v > 100.0,
\* and v otherwise; it leaves the camera position and the pan state (flag
\* and anchors) unchanged.
C22_SetZoomLevelClamps ==
    [][(nevents' = nevents + 1 /\ last'.op = "set_zoom_level") =>
           LET v == last'.factor
           IN  /\ RLt(v, Rat(1, 100)) => zoom' = Rat(1, 100)
               /\ RLt(R(100), v) => zoom' = R(100)
               /\ (~RLt(v, Rat(1, 100)) /\ ~RLt(R(100), v)) => zoom' = v
               /\ UNCHANGED <<position, is_panning, pan_start_pos,
                              camera_start_pos>>]_vars

\* set_zoom_level(1/200) has been handled during a pan with the camera
\* away from the origin and the zoom at 7/3: the zoom is 1/100.
C22_Witness ==
    /\ last.op = "set_zoom_level"
    /\ last.factor = Rat(1, 200)
    /\ last.zoom_before = Rat(7, 3)
    /\ last.panning_before /\ is_panning
    /\ position # Pt(0, 0)
    /\ zoom = Rat(1, 100)

(***************************************************************************)
(* Properties of the registry's mutations and region query (SceneSpec).    *)
(***************************************************************************)
\* C23: remove_item(item) on a registry that does not hold item is a
\* no-op: the item list and its order are unchanged and neither
\* items_changed nor scene_changed is emitted; when item is held, an entry
\* of item is removed (the item is gone when it was held once), the
\* relative order of the remaining items is unchanged, and both signals
\* are emitted.
C23_RemoveItem ==
    [][query'.op = "remove_item" =>
           LET item == query'.arg
               at == {i \in 1..Len(items) : items[i].id = item}
           IN  IF at = {}
               THEN /\ items' = items
                    /\ signals' = <<>>
               ELSE /\ \E i \in at :
                          items' = [j \in 1..(Len(items) - 1) |->
                                       IF j < i THEN items[j]
                                       ELSE items[j + 1]]
                    /\ held[item] = 1 =>
                          \A j \in 1..Len(items') : items'[j].id # item
                    /\ signals' = <<"items_changed", "scene_changed">>]_vars

\* remove_item has taken object 1, the first of three entries, out of the
\* registry: the two entries left are objects 2 and 3, in the order they
\* had.
C23_Witness ==
    /\ query.op = "remove_item" /\ query.arg = 1
    /\ nadds = 3
    /\ Ids(items) = <<2, 3>>
    /\ items[1].seq < items[2].seq
    /\ signals = <<"items_changed", "scene_changed">>

\* C24: every add_item and every clear_items, also on an empty registry,
\* emits items_changed and then scene_changed, once each; after clear_items
\* the registry is empty: get_items is empty and every hit test and region
\* query finds nothing.
C24_ChangeSignalling ==
    /\ query.op \in {"add_item", "clear_items"} =>
          signals = <<"items_changed", "scene_changed">>
    /\ query.op = "clear_items" =>
          /\ items = <<>>
          /\ get_items = <<>>
          /\ \A p \in QueryPoints : get_item_at_position(p) = None
          /\ \A r \in QueryRects :
                get_items_in_rect(r[1], r[2], r[3], r[4]) = <<>>
    /\ (items = <<>> /\ query.op = "get_item_at_position") =>
          query.result = None

\* clear_items has run on a registry to which nothing was ever added, and
\* has emitted both signals.
C24_Witness ==
    /\ query.op = "clear_items"
    /\ nadds = 0
    /\ signals = <<"items_changed", "scene_changed">>
    /\ items_changed_flag

\* The entries of the registry, by index, that a region query over the
\* rectangle r = <<x, y, w, h>> selects: visible, unlocked, anchor inside.
AnchoredIn(r) ==
    {i \in 1..Len(items) :
        LET d == Pool[items[i].id]
        IN  /\ item_visible[items[i].id]
            /\ ~item_locked[items[i].id]
            /\ ~RLt(d.x, r[1]) /\ ~RLt(RAdd(r[1], r[3]), d.x)
            /\ ~RLt(d.y, r[2]) /\ ~RLt(RAdd(r[2], r[4]), d.y)}

RenderingOrder ==
    LET L == out.painted
        shown == {i \in 1..Len(items) : item_visible[items[i].id]}
        n == Cardinality(shown)
        Drawn(item) == Cardinality({k \in 2..(n + 1) : L[k].id = item})
        Entered(item) == Cardinality({i \in shown : items[i].id = item})
    IN  /\ Len(L) = n + 2 + (IF scope_visible THEN 1 ELSE 0)
        /\ L[1].layer = "background"
        /\ \A k \in 2..(n + 1) :
              /\ L[k].layer = "item"
              /\ item_visible[L[k].id]
        /\ \A item \in ItemIds : Drawn(item) = Entered(item)
        /\ \A j, k \in 2..(n + 1) :
              j < k => item_z[L[j].id] <= item_z[L[k].id]
        /\ L[n + 2].layer = "origin_lines"
        /\ scope_visible =>
              /\ L[n + 3].layer = "scope"
              /\ RLe(R(L[n + 3].at[1]), last_mouse_pos[1])
              /\ RLt(last_mouse_pos[1], R(L[n + 3].at[1] + 1))
              /\ RLe(R(L[n + 3].at[2]), last_mouse_pos[2])
              /\ RLt(last_mouse_pos[2], R(L[n + 3].at[2] + 1))

\* C26: every repaint performs, strictly in this order, the background,
\* the items of get_items in ascending z_index skipping every item whose
\* visible flag is false, the origin marker, and the crosshair through the
\* last-known cursor position; the crosshair is drawn if and only if the
\* scope-visible flag is set, which is set initially and flipped by
\* toggle_scope and by nothing else.
C26_RenderingOrder ==
    /\ scope_visible = TRUE
    /\ [][LET handled == nevents' = nevents + 1
               repaint == handled /\ last'.op = "paintEvent"
               toggle == handled /\ last'.op = "toggle_scope"
           IN  /\ repaint => RenderingOrder'
               /\ toggle => (scope_visible' = ~scope_visible)
               /\ (scope_visible' # scope_visible) => toggle]_vars

\* A repaint has run with the scope toggled off over a registry holding
\* objects 3, 4 and 1, of which 4 is invisible: it drew the background,
\* object 1, object 3 and the origin marker.
C26_Witness ==
    /\ last.op = "paintEvent"
    /\ ~scope_visible
    /\ Ids(items) = <<4, 1, 3>>
    /\ ~item_visible[4]
    /\ Len(out.painted) = 4
    /\ out.painted[2].id = 1 /\ out.painted[3].id = 3

(***************************************************************************)
(* Pointer buttons and keys the viewport gives no meaning to (StepSpec).   *)
(***************************************************************************)
\* C27, as claimed: a pointer-up handled in any state, for any button and
\* any modifier state, completes without raising and leaves the viewport
\* Idle.
C27_PointerUpSafe_Claimed ==
    last.op = "mouseReleaseEvent" => (~out.raised /\ ~is_panning)

\* C28, as claimed: a pointer-down with a button other than left or middle
\* performs no hit test and dispatches no on_clicked, and leaves camera
\* position, zoom and pan flag unchanged.
C28_OtherButtonsIgnored_Claimed ==
    (last.op = "mousePressEvent" /\ last.key \notin {"Left", "Middle"}) =>
        /\ out.clicked = <<>>
        /\ position = last.position_before
        /\ zoom = last.zoom_before
        /\ is_panning = last.panning_before

(***************************************************************************)
(* Properties of scenes that may hold a zero-size ellipse                  *)
(* (DegenerateSpec).                                                       *)
(***************************************************************************)
\* The keys keyPressEvent has a branch for.
BoundKeys ==
    {"Left", "Right", "Up", "Down", "Plus", "Equal", "Minus", "0", "Home",
     "H"}

\* C29, as claimed: an unknown key is ignored: it leaves camera position,
\* zoom, pan flag, pan anchors, last-known cursor position and scope flag
\* unchanged and raises no error.
C29_UnknownKeyIgnored_Claimed ==
    [][(/\ nevents' = nevents + 1
        /\ last'.op = "keyPressEvent"
        /\ last'.key \notin BoundKeys) =>
           /\ UNCHANGED <<position, zoom, is_panning, pan_start_pos,
                          camera_start_pos, last_mouse_pos, scope_visible>>
           /\ ~out'.raised]_vars

\* C30, as claimed: hit testing is total for every item with width >= 0
\* and height >= 0, an Ellipse of width or height 0 included: it returns an
\* item or none and never raises.
C30_HitTestTotal_Claimed ==
    query.op = "get_item_at_position" => query.result # Raised

(***************************************************************************)
(* The pan state machine over event sequences (Spec).                      *)
(***************************************************************************)
\* C31, as claimed: a pan in progress returns to Idle only through the
\* release of the button that initiated it: no other event (release of a
\* different button, pointer-down, pointer-move, wheel, key) changes the
\* pan flag from set to cleared.
C31_PanEndsOnlyByMatchingRelease_Claimed ==
    [][(is_panning /\ ~is_panning') =>
           /\ last'.op = "mouseReleaseEvent"
           /\ last'.key = last.pan_button]_vars

(* The workspace (WorkspaceSpec). *)
\* C32: no two tabs share a view or a manager, and a step changes what a
\* tab shows only if the tab is the selected one and stays it: a workspace
\* command or a registry mutation leaves every other tab as it was, and
\* opening or selecting a tab leaves every tab as it was.
C32_TabIndependence ==
    /\ [](\A j, k \in 1..Len(tabs) :
             j # k => /\ tabs[j] # tabs[k]
                      /\ scene_manager[tabs[j]] # scene_manager[tabs[k]])
    /\ [][\A j \in 1..Len(tabs) :
             (j # current \/ current' # current)
                 => TabState(tabs[j])' = TabState(tabs[j])]_vars

\* Two tabs, the second selected, zoomed and holding an item, the first as
\* it was opened.
C32_Witness ==
    /\ Len(tabs) = 2
    /\ current = 2
    /\ zoom # R(1)
    /\ ~scope_visible
    /\ items # <<>>
    /\ TabState(tabs[1]) = [view |-> NewView(<<400, 300>>),
                            manager |-> NewManager]


(* Pointer moves (StepSpec, DragSpec). *)
\* C33: a pointer move that finds no pan under way records the event
\* position as the last-known cursor and leaves the camera position, the
\* zoom, the pan flag and the pan anchors as they were.
C33_IdleMoveTracksCursor ==
    [][(nevents' = nevents + 1 /\ last'.op = "mouseMoveEvent" /\ ~is_panning)
          => /\ last_mouse_pos' = last'.cursor
             /\ UNCHANGED <<position, zoom, is_panning, pan_start_pos,
                            camera_start_pos>>]_vars

\* An idle move to the viewport centre, from a cursor elsewhere, over a
\* camera off the origin.
C33_Witness ==
    /\ last.op = "mouseMoveEvent"
    /\ ~last.panning_before
    /\ last.cursor = Pt(200, 150)
    /\ last.last_mouse_before = Pt(350, 300)
    /\ last_mouse_pos = Pt(200, 150)
    /\ position = <<Rat(-37, 4), R(1000)>>
    /\ zoom = Rat(7, 3)

\* C34: a pointer move to S that finds a pan under way, the zoom Z being
\* the one the pan started with, sets the camera position to
\* C0 - (S - S0) / Z, S0 and C0 being the anchors; the scene point then
\* under S is the one that was under S0 when the pan started.
C34_PanDragKeepsGrabbedPoint ==
    [][(/\ nevents' = nevents + 1
        /\ last'.op = "mouseMoveEvent"
        /\ is_panning
        /\ zoom = last.pan_zoom)
          => \A S \in ScreenPoints : last'.cursor = S =>
                 /\ position' =
                       <<RSub(camera_start_pos[1],
                              RDiv(RSub(S[1], pan_start_pos[1]), zoom)),
                         RSub(camera_start_pos[2],
                              RDiv(RSub(S[2], pan_start_pos[2]), zoom))>>
                 /\ screen_to_scene(S)' = last.pan_scene]_vars

\* A drag from the corner (0, 0) to (350, 300) at zoom 7/3, the pan having
\* started with the camera off the origin.
C34_Witness ==
    /\ last.op = "mouseMoveEvent"
    /\ last.panning_before
    /\ is_panning
    /\ zoom = Rat(7, 3)
    /\ last.pan_zoom = Rat(7, 3)
    /\ pan_start_pos = Pt(0, 0)
    /\ camera_start_pos = <<Rat(-37, 4), R(1000)>>
    /\ last.cursor = Pt(350, 300)
    /\ position = <<Rat(-637, 4), Rat(6100, 7)>>

\* C35, as claimed: after every pointer move that finds a pan under way,
\* wheel notches handled since the press or not, the scene point under the
\* cursor is the one that was under the cursor when the pan started.
C35_PanSurvivesZoom_Claimed ==
    [][(nevents' = nevents + 1 /\ last'.op = "mouseMoveEvent" /\ is_panning)
          => \A S \in ScreenPoints : last'.cursor = S =>
                 screen_to_scene(S)' = last.pan_scene]_vars

(* Repaint requests (Spec). *)
\* C36, as claimed: a handler or command that changes the camera position
\* or the zoom requests a repaint before it returns.
C36_CameraChangeRequestsRepaint_Claimed ==
    [][(nevents' = nevents + 1 /\ (position' # position \/ zoom' # zoom))
          => out'.updates >= 1]_vars

\* C37, as claimed: a repaint draws every item where scene_to_screen puts
\* the anchor of the item.
C37_RenderMatchesSceneToScreen_Claimed ==
    \A k \in 1..Len(out.painted) :
        out.painted[k].layer = "item"
            => out.painted[k].at =
                   scene_to_screen(<<Pool[out.painted[k].id].x,
                                     Pool[out.painted[k].id].y>>)

(* Hit tests of the registry and of the viewport (ReorderSpec). *)
\* C38, as claimed: in every state, z_index values reassigned or not,
\* get_item_at_position(p) of the registry is the item the viewport targets
\* at the scene point p.
C38_SingleHitTest_Claimed ==
    \A p \in QueryPoints : get_item_at_position(p) = view_item_at(p)

(* Removal of an item the registry holds more than once (SceneSpec). *)
\* C39, as claimed: once remove_item(item) has returned, the registry does
\* not hold item, whatever add_item calls came before.
C39_RemovedItemIsGone_Claimed ==
    query.op = "remove_item" => IndexOf(items, query.arg) = 0

(* Zoom steps that undo each other (RoundTripSpec). *)
\* The step about to be taken is the inverse of the step taken last: both
\* are zoom steps about the same cursor position, one by the zoom-in factor
\* and the other by the zoom-out factor.
UndoesLastStep ==
    /\ nevents' = nevents + 1
    /\ last.op \in {"wheelEvent", "zoom_in", "zoom_out"}
    /\ last'.op \in {"wheelEvent", "zoom_in", "zoom_out"}
    /\ last'.cursor = last.cursor
    /\ \/ last.factor = zoom_in_factor /\ last'.factor = zoom_out_factor
       \/ last.factor = zoom_out_factor /\ last'.factor = zoom_in_factor

\* C40, as claimed: the second of two inverse zoom steps restores the zoom
\* and the camera position the first one found, from every zoom of the
\* range.
C40_ZoomRoundTrip_Claimed ==
    [][UndoesLastStep => /\ zoom' = last.zoom_before
                         /\ position' = last.position_before]_vars

\* C40, amended: the second of two inverse zoom steps restores the zoom and
\* the camera position the first one found, provided the first step was not
\* clamped: the zoom it started from times its factor lies in [0.01, 100].
C40_ZoomRoundTrip ==
    [][(/\ UndoesLastStep
        /\ RLe(min_zoom, RMul(last.zoom_before, last.factor))
        /\ RLe(RMul(last.zoom_before, last.factor), max_zoom))
          => /\ zoom' = last.zoom_before
             /\ position' = last.position_before]_vars

\* A wheel notch down at (350, 300) has undone a notch up from zoom 7/3,
\* bringing the camera back from where the notch up had moved it.
C40_Witness ==
    /\ last.op = "wheelEvent"
    /\ last.factor = zoom_out_factor
    /\ last.cursor = Pt(350, 300)
    /\ last.zoom_before = Rat(35, 12)
    /\ last.position_before # position
    /\ zoom = Rat(7, 3)
    /\ position = <<Rat(-37, 4), R(1000)>>

====
